---- MODULE Spec2Model ----
(***************************************************************************)
(* Verification model of the halisaha_automation agent:                    *)
(*   - FieldAgent.processMessage (bounded tool-execution loop)             *)
(*   - Database conversation-history store (compaction, trim, expiry)      *)
(*   - ToolRouter.selectRelevantTools                                      *)
(*   - ReservationService / Database booking operations and the datastore  *)
(*     exclusion constraint                                                *)
(* The specifications share the variables:                                 *)
(*   Spec        one turn in flight at a time, full loop                   *)
(*   SpecConc    two webhook deliveries in flight at the same time         *)
(*   SpecIdle    one turn at a time, the clock advancing by varying steps  *)
(*   SpecBooking concurrent booking operations on the datastore            *)
(*   SpecRouter  selectRelevantTools applied to bounded selection replies  *)
(*   SpecStore   setConversationHistory applied to bounded histories       *)
(*   SpecSlot    parseTimeSlot applied to bounded slot expressions         *)
(*   SpecWeek    getWeekStartDate and the weekday map over bounded dates   *)
(*   SpecCache   week-table cache reads, writes, expiry and cache faults   *)
(*   SpecWire    tool calls decoded and their results encoded per provider *)
(*   SpecPhone   phone normalisation applied to bounded inputs             *)
(*   SpecTenant  concurrent getOrCreateTenant calls                        *)
(*   SpecHook    webhook deliveries against the de-duplication set         *)
(*   SpecEdge    bookings of one tenant over touching and empty ranges     *)
(*   SpecZone    get_current_time beside getWeekStartDate across zones     *)
(***************************************************************************)
EXTENDS Integers, Sequences, FiniteSets, TLC

VARIABLES
  providerKind,          \* config.llm.provider
  NODE_ENV,              \* process.env.NODE_ENV
  conversationHistory,   \* Database.conversationHistory : key -> Message[]
  lastActivityTime,      \* Database.lastActivityTime    : key -> ms (0 = no entry)
  now,                   \* Date.now()
  turn,                  \* one record per webhook delivery slot (a processMessage call)
  turnsStarted,          \* number of incoming messages so far
  budget,                \* remaining environment choices (bounds the run)
  customers,             \* table customers
  reservations,          \* table reservations
  bop,                   \* one record per booking operation in flight
  bookOps,               \* number of booking operations started
  route,                 \* the routing stage under SpecRouter
  saveIn,                \* a history handed to setConversationHistory under SpecStore
  slot,                  \* a parseTimeSlot call under SpecSlot
  fn,                    \* one application of a pure operation (SpecWeek, SpecWire, SpecPhone)
  cache,                 \* CacheService entries and the operations using them (SpecCache)
  tenants,               \* table tenants and the getOrCreateTenant calls (SpecTenant)
  hook                   \* the webhook's processedMessages and deliveries (SpecHook)

agentVars == <<providerKind, NODE_ENV, conversationHistory, lastActivityTime, now, turn, turnsStarted, budget>>
bookVars == <<customers, reservations, bop, bookOps>>
routerVars == <<route>>
pureVars == <<saveIn, slot>>
sideVars == <<fn, cache, tenants, hook>>
vars == <<providerKind, NODE_ENV, conversationHistory, lastActivityTime, now, turn, turnsStarted, budget,
          customers, reservations, bop, bookOps, route, saveIn, slot,
          fn, cache, tenants, hook>>

(***************************************************************************)
(* Bounds                                                                  *)
(***************************************************************************)
MaxTurns == 2        \* incoming messages per run
MaxVariety == 1      \* assistant turns per run with text beside calls or two calls
MaxThrows == 1       \* tool executions per run that throw (domain logic or argument parsing)
MaxTicks == 2        \* clock advances per run
ConcRounds == 1      \* tool rounds per turn while two turns may be in flight (SpecConc)
IdleRounds == 1      \* tool rounds per turn while the clock steps vary (SpecIdle)

(***************************************************************************)
(* Program constants                                                       *)
(***************************************************************************)
maxIterations == 7
MAX_HISTORY_MESSAGES == 10
HISTORY_EXPIRY_MS == 15 * 60 * 1000
TickMs == 8 * 60 * 1000
\* the clock advances by 7 or by 8 minutes: 15 minutes exactly is reachable
TickSteps == {TickMs - 60 * 1000, TickMs}
topN == 3

Procs == {1, 2}
Users == {"u1"}
Tenants == {"1", "2"}
NoTenant == "undefined"
UserTexts == <<"m1", "m2", "m3", "m4">>
ResetCommand == "/reset"

\* the registered tool names, in registration order (FieldAgent.tools)
allTools == <<"create_reservation", "show_week_table", "cancel_reservation", "get_current_time">>
CallNames == {"create_reservation", "get_current_time"}

SYSTEM_PROMPT == "system-prompt"
RESET_REPLY == "reset-ok"
NO_ANSWER == "no-answer-apology"
ERROR_APOLOGY == "error-apology"
NoReply == "no-reply"
\* the token-usage line appended to a reply outside production
TOKEN_FOOTER == "+tokens"
Environments == {"production", "development"}

(***************************************************************************)
(* Message / ToolCall (providers/types.ts)                                 *)
(***************************************************************************)
ToolCall(id, name) == [id |-> id, type |-> "function", name |-> name]

\* tool_calls is optional: has_tool_calls tells whether the field is set
Message(role, content, has, calls, id) ==
  [role |-> role, content |-> content, has_tool_calls |-> has,
   tool_calls |-> calls, tool_call_id |-> id]

SystemMessage == Message("system", SYSTEM_PROMPT, FALSE, <<>>, "")
UserMessage(text) == Message("user", text, FALSE, <<>>, "")
ToolMessage(id, content) == Message("tool", content, FALSE, <<>>, id)

\* String.prototype.trim on the contents the model uses
Trim(s) == IF s = " " THEN "" ELSE s

(***************************************************************************)
(* Database: conversation history                                          *)
(***************************************************************************)
getTenantKey(tenantId, userId) == tenantId \o ":" \o userId

\* processMessage(userId, message) has no tenant parameter: the key it
\* reads and writes is built from the sender alone
SessionKey(tenantId, userId) == getTenantKey(NoTenant, userId)

Keys == {getTenantKey(t, u) : t \in Tenants \cup {NoTenant}, u \in Users}

Expired_AtWindow(last, key, t) == last[key] # 0 /\ t - last[key] >= HISTORY_EXPIRY_MS

\* the delete in cleanExpiredHistory applies when this holds
Expired(last, key, t) == last[key] # 0 /\ t - last[key] > HISTORY_EXPIRY_MS

cleanExpiredHistory(store, last, key, t) ==
  IF Expired(last, key, t)
  THEN [h |-> [store EXCEPT ![key] = <<>>], l |-> [last EXCEPT ![key] = 0]]
  ELSE [h |-> store, l |-> last]

RECURSIVE SkipTools(_, _)
SkipTools(messages, i) ==
  IF i <= Len(messages) /\ messages[i].role = "tool"
  THEN SkipTools(messages, i + 1)
  ELSE i

RECURSIVE optimizeFrom_KeepTools(_, _)
optimizeFrom_KeepTools(messages, i) ==
  IF i > Len(messages) THEN <<>>
  ELSE LET msg == messages[i] IN
    IF msg.role = "assistant" /\ Trim(msg.content) = "" /\ msg.has_tool_calls
    THEN optimizeFrom_KeepTools(messages, i + 1)
    ELSE <<msg>> \o optimizeFrom_KeepTools(messages, i + 1)

RECURSIVE optimizeFrom(_, _)
optimizeFrom(messages, i) ==
  IF i > Len(messages) THEN <<>>
  ELSE LET msg == messages[i] IN
    IF msg.role = "system" \/ msg.role = "user"
    THEN <<msg>> \o optimizeFrom(messages, i + 1)
    ELSE IF msg.role = "assistant"
    THEN IF Trim(msg.content) # ""
         THEN <<msg>> \o optimizeFrom(messages, i + 1)
         ELSE IF msg.has_tool_calls
         THEN LET j == SkipTools(messages, i + 1) IN
              IF j <= Len(messages) /\ messages[j].role = "assistant"
              THEN <<messages[j]>> \o optimizeFrom(messages, j + 1)
              ELSE optimizeFrom(messages, j)
         ELSE <<msg>> \o optimizeFrom(messages, i + 1)
    ELSE optimizeFrom(messages, i + 1)

optimizeMessages(messages) == optimizeFrom(messages, 1)

IsSystem(m) == m.role = "system"
NotSystem(m) == m.role # "system"

LastN(s, n) == IF Len(s) <= n THEN s ELSE SubSeq(s, Len(s) - n + 1, Len(s))

StoredFor_DropSystem(messages) ==
  LET optimizedMessages == optimizeMessages(messages)
      otherMessages == SelectSeq(optimizedMessages, NotSystem)
  IN IF Len(otherMessages) > MAX_HISTORY_MESSAGES
     THEN LastN(otherMessages, MAX_HISTORY_MESSAGES)
     ELSE optimizedMessages

\* the array setConversationHistory stores for `messages`
StoredFor(messages) ==
  LET optimizedMessages == optimizeMessages(messages)
      systemMessages == SelectSeq(optimizedMessages, IsSystem)
      otherMessages == SelectSeq(optimizedMessages, NotSystem)
  IN IF Len(otherMessages) > MAX_HISTORY_MESSAGES
     THEN LET trimmedMessages == LastN(otherMessages, MAX_HISTORY_MESSAGES) IN
          IF Len(systemMessages) > 0
          THEN <<systemMessages[1]>> \o trimmedMessages
          ELSE trimmedMessages
     ELSE optimizedMessages

setConversationHistory(store, last, key, messages, t) ==
  LET c == cleanExpiredHistory(store, last, key, t) IN
  [h |-> [c.h EXCEPT ![key] = StoredFor(messages)],
   l |-> [c.l EXCEPT ![key] = t]]

clearConversationHistory(store, last, key) ==
  [h |-> [store EXCEPT ![key] = <<>>], l |-> [last EXCEPT ![key] = 0]]

(***************************************************************************)
(* Provider abstraction: the assistant turn decoded from a backend reply   *)
(***************************************************************************)
\* ids of the decoded ToolCalls: OpenAI passes the backend's id through
\* (tc.id), Gemini uses call.id || call.name || 'unknown'
DecodeId(kind, backendId, name) ==
  IF kind = "openai" THEN backendId
  ELSE IF backendId # "" THEN backendId
  ELSE IF name # "" THEN name ELSE "unknown"

BackendId(turnNo, round, k) ==
  "call_" \o ToString(turnNo) \o "_" \o ToString(round) \o "_" \o ToString(k)

\* inside a turn the OpenAI backend numbers its calls and the Gemini backend
\* supplies no call id
DecodeCalls(kind, names, turnNo, round) ==
  [k \in 1..Len(names) |->
     ToolCall(DecodeId(kind, IF kind = "openai" THEN BackendId(turnNo, round, k) ELSE "", names[k]),
              names[k])]

AssistantTurn(kind, content, names, turnNo, round) ==
  Message("assistant", content, Len(names) > 0, DecodeCalls(kind, names, turnNo, round), "")

\* backend replies the environment may give: <<content, function names>>
PlainReplies == {<<"txt", <<>>>>, <<"", <<>>>>, <<"", <<"get_current_time">>>>}
RichReplies ==
  {<<"txt", <<"get_current_time">>>>}
  \cup {<<"", <<"get_current_time", b>>>> : b \in CallNames}

\* GeminiProvider.createCompletion on finishReason MALFORMED_FUNCTION_CALL:
\* an assistant turn with a fixed apology text and no tool calls
MALFORMED_APOLOGY == "malformed-call-apology"
MalformedReplies == {<<MALFORMED_APOLOGY, <<>>>>}

(***************************************************************************)
(* FieldAgent                                                              *)
(***************************************************************************)
IdleTurn ==
  [pc |-> "idle", tenantId |-> NoTenant, userId |-> "", key |-> "", turnNo |-> 0,
   messages |-> <<>>, relevantTools |-> <<>>, iteration |-> 0, callIdx |-> 0,
   execCalls |-> 0, toolThrows |-> 0, reply |-> NoReply, outcome |-> "none",
   handed |-> <<>>, overlapped |-> FALSE, expiredAtLoad |-> FALSE,
   decoded |-> 0, pendingCalls |-> 0, malformed |-> 0,
   routingCalls |-> 0, usageLogged |-> 0,
   histBefore |-> <<>>, lastBefore |-> 0]

executeFunction_NoCatch(functionName, domainOutcome) ==
  [threw |-> domainOutcome = "throw",
   text |-> IF domainOutcome = "throw" THEN "tool-error" ELSE "tool-ok"]

\* executeFunction: the switch runs inside try/catch, a throw becomes text
executeFunction(functionName, domainOutcome) ==
  [threw |-> FALSE,
   text |-> IF domainOutcome = "throw" THEN "tool-error" ELSE "tool-ok"]

LastAssistant(t) == t.messages[Len(t.messages)]

InFlight == {p \in Procs : turn[p].pc # "idle"}

\* the webhook hands a message to processMessage
StartTurn(p, tenantId, userId, text) ==
  /\ turn[p].pc = "idle"
  /\ \A q \in Procs : q < p => turn[q].pc # "idle"
  /\ turnsStarted < MaxTurns
  /\ Cardinality(InFlight) < budget.inflight
  /\ turnsStarted' = turnsStarted + 1
  /\ LET key == SessionKey(tenantId, userId) IN
     IF text = ResetCommand
     THEN LET c == clearConversationHistory(conversationHistory, lastActivityTime, key) IN
          /\ conversationHistory' = c.h
          /\ lastActivityTime' = c.l
          /\ turn' = [turn EXCEPT ![p] =
               [IdleTurn EXCEPT !.tenantId = tenantId, !.userId = userId, !.key = key,
                                !.turnNo = turnsStarted + 1,
                                !.reply = RESET_REPLY, !.outcome = "reset"]]
     ELSE LET c == cleanExpiredHistory(conversationHistory, lastActivityTime, key, now)
              history == c.h[key]
              messages == IF Len(history) > 0 THEN history ELSE <<SystemMessage>>
          IN
          /\ conversationHistory' = c.h
          /\ lastActivityTime' = c.l
          /\ turn' = [turn EXCEPT ![p] =
               [IdleTurn EXCEPT !.pc = "routing", !.tenantId = tenantId, !.userId = userId,
                                !.key = key, !.turnNo = turnsStarted + 1,
                                !.messages = Append(messages, UserMessage(text)),
                                !.expiredAtLoad = Expired(lastActivityTime, key, now),
                                !.histBefore = conversationHistory[key],
                                !.lastBefore = lastActivityTime[key],
                                !.overlapped = \E q \in InFlight : turn[q].key = key]]
  /\ UNCHANGED <<providerKind, NODE_ENV, now, budget>>

\* processMessage returns: its locals are gone, the counters stay for
\* inspection; what the store held before the turn is remembered for a
\* failed turn only
Returned(t) ==
  [t EXCEPT !.pc = "idle", !.messages = <<>>, !.relevantTools = <<>>, !.callIdx = 0,
            !.histBefore = <<>>, !.lastBefore = 0]

Failed_Throws(t) ==
  [Returned(t) EXCEPT !.reply = NoReply, !.outcome = "thrown",
                      !.histBefore = t.histBefore, !.lastBefore = t.lastBefore]

\* the catch of processMessage: nothing is saved, the apology is returned
Failed(t) ==
  [Returned(t) EXCEPT !.reply = ERROR_APOLOGY, !.outcome = "error",
                      !.histBefore = t.histBefore, !.lastBefore = t.lastBefore]

AfterAssistant_NoCap(p, t) ==
  LET assistantMessage == LastAssistant(t) IN
  IF assistantMessage.has_tool_calls
  THEN /\ turn' = [turn EXCEPT ![p] =
            [t EXCEPT !.iteration = t.iteration + 1,
                      !.callIdx = 1,
                      !.pc = IF Len(assistantMessage.tool_calls) = 0
                             THEN "awaiting" ELSE "executing"]]
       /\ UNCHANGED <<conversationHistory, lastActivityTime>>
  ELSE LET s == setConversationHistory(conversationHistory, lastActivityTime, t.key, t.messages, now)
           finalResponse == IF assistantMessage.content # ""
                            THEN assistantMessage.content ELSE NO_ANSWER
       IN
       /\ conversationHistory' = s.h
       /\ lastActivityTime' = s.l
       /\ turn' = [turn EXCEPT ![p] =
            [Returned(t) EXCEPT !.reply = IF NODE_ENV # "production"
                                         THEN finalResponse \o TOKEN_FOOTER
                                         ELSE finalResponse,
                                !.outcome = "saved",
                                !.handed = t.messages]]

AfterAssistant_CapFails(p, t) ==
  IF LastAssistant(t).has_tool_calls /\ t.iteration >= maxIterations
  THEN /\ turn' = [turn EXCEPT ![p] = Failed(t)]
       /\ UNCHANGED <<conversationHistory, lastActivityTime>>
  ELSE AfterAssistant_NoCap(p, t)

\* after `messages.push(assistantMessage)`: the while condition, then either
\* the first tool call of the round or the end of processMessage
AfterAssistant(p, t) ==
  LET assistantMessage == LastAssistant(t) IN
  IF assistantMessage.has_tool_calls /\ t.iteration < maxIterations
  THEN /\ turn' = [turn EXCEPT ![p] =
            [t EXCEPT !.iteration = t.iteration + 1,
                      !.callIdx = 1,
                      !.pc = IF Len(assistantMessage.tool_calls) = 0
                             THEN "awaiting" ELSE "executing"]]
       /\ UNCHANGED <<conversationHistory, lastActivityTime>>
  ELSE LET s == setConversationHistory(conversationHistory, lastActivityTime, t.key, t.messages, now)
           finalResponse == IF assistantMessage.content # ""
                            THEN assistantMessage.content ELSE NO_ANSWER
       IN
       /\ conversationHistory' = s.h
       /\ lastActivityTime' = s.l
       /\ turn' = [turn EXCEPT ![p] =
            [Returned(t) EXCEPT !.reply = IF NODE_ENV # "production"
                                         THEN finalResponse \o TOKEN_FOOTER
                                         ELSE finalResponse,
                                !.outcome = "saved",
                                !.handed = t.messages]]

\* an execution-stage createCompletion resolves with an assistant turn and
\* its usage, which db.logTokenUsage records before the turn is pushed
ModelResponse(p, reply) ==
  /\ turn[p].pc = "awaiting"
  /\ \/ reply \in PlainReplies /\ budget' = budget
     \/ /\ reply \in RichReplies \cup MalformedReplies
        /\ reply \in MalformedReplies => providerKind = "gemini"
        /\ budget.variety > 0
        /\ budget' = [budget EXCEPT !.variety = @ - 1]
  /\ Len(reply[2]) > 0 /\ turn[p].iteration < maxIterations => turn[p].iteration < budget.rounds
  /\ LET t == turn[p]
         m == AssistantTurn(providerKind, reply[1], reply[2], t.turnNo, t.execCalls + 1)
     IN AfterAssistant(p, [t EXCEPT !.messages = Append(t.messages, m),
                                    !.execCalls = t.execCalls + 1,
                                    !.decoded = t.decoded + 1,
                                    !.usageLogged = t.usageLogged + 1,
                                    !.pendingCalls = Len(m.tool_calls),
                                    !.malformed = IF reply \in MalformedReplies
                                                  THEN t.malformed + 1 ELSE t.malformed])
  /\ UNCHANGED <<providerKind, NODE_ENV, now, turnsStarted>>

ModelFailure_SavesPartial(p) ==
  /\ turn[p].pc = "awaiting"
  /\ LET s == setConversationHistory(conversationHistory, lastActivityTime, turn[p].key,
                                     turn[p].messages, now)
     IN /\ conversationHistory' = s.h
        /\ lastActivityTime' = s.l
  /\ turn' = [turn EXCEPT ![p] = Failed([turn[p] EXCEPT !.execCalls = @ + 1])]
  /\ UNCHANGED <<providerKind, NODE_ENV, now, turnsStarted, budget>>

\* an execution-stage createCompletion rejects
ModelFailure(p) ==
  /\ turn[p].pc = "awaiting"
  /\ turn' = [turn EXCEPT ![p] = Failed([turn[p] EXCEPT !.execCalls = @ + 1])]
  /\ UNCHANGED <<providerKind, NODE_ENV, conversationHistory, lastActivityTime, now, turnsStarted, budget>>

\* one pass of `for (const toolCall of assistantMessage.tool_calls)`:
\* JSON.parse of the arguments (outside executeFunction's try; the Gemini
\* decoder builds them with JSON.stringify, so only OpenAI's can be bad), then
\* executeFunction, then the push of the tool-result
ToolResult(p, domainOutcome) ==
  /\ turn[p].pc = "executing"
  /\ \/ domainOutcome = "ok" /\ budget' = budget
     \/ /\ domainOutcome \in {"throw", "badargs"}
        /\ domainOutcome = "badargs" => providerKind = "openai"
        /\ budget.throws > 0
        /\ budget' = [budget EXCEPT !.throws = @ - 1]
  /\ LET t == [turn[p] EXCEPT !.toolThrows = IF domainOutcome = "throw" THEN @ + 1 ELSE @,
                              !.malformed = IF domainOutcome = "badargs" THEN @ + 1 ELSE @]
         calls == t.messages[Len(t.messages) - (t.callIdx - 1)].tool_calls
         toolCall == calls[t.callIdx]
         functionResult == executeFunction(toolCall.name, domainOutcome)
     IN
     IF domainOutcome = "badargs" \/ functionResult.threw
     THEN turn' = [turn EXCEPT ![p] = Failed(t)]
     ELSE turn' = [turn EXCEPT ![p] =
            [t EXCEPT !.messages = Append(t.messages, ToolMessage(toolCall.id, functionResult.text)),
                      !.callIdx = t.callIdx + 1,
                      !.pc = IF t.callIdx = Len(calls) THEN "awaiting" ELSE "executing"]]
  /\ UNCHANGED <<providerKind, NODE_ENV, conversationHistory, lastActivityTime, now, turnsStarted>>

\* time passes
Tick(d) ==
  /\ budget.ticks > 0
  /\ InFlight = {}
  /\ turnsStarted > 0 /\ turnsStarted < MaxTurns
  /\ now' = now + d
  /\ budget' = [budget EXCEPT !.ticks = @ - 1]
  /\ UNCHANGED <<providerKind, NODE_ENV, conversationHistory, lastActivityTime, turn, turnsStarted>>

(***************************************************************************)
(* ToolRouter                                                              *)
(***************************************************************************)
MaxPieces == 4       \* comma-separated pieces in a selection reply

\* pieces of a selection reply as split(',') yields them
Pieces == {"create_reservation", "get_current_time", " show_week_table ", "???", "unknown_tool", " ", ""}

\* name.trim()
TrimName(s) ==
  IF s = " " THEN ""
  ELSE IF s = " show_week_table " THEN "show_week_table"
  ELSE s

Registered(name) == \E i \in 1..Len(allTools) : allTools[i] = name
NonEmpty(name) == name # ""

Take(s, n) == IF Len(s) <= n THEN s ELSE SubSeq(s, 1, n)

selectRelevantTools_NoFallback(reply, n) ==
  IF reply.threw THEN allTools
  ELSE LET trimmed == [i \in 1..Len(reply.pieces) |-> TrimName(reply.pieces[i])]
           selectedToolNames == Take(SelectSeq(trimmed, NonEmpty), n)
       IN SelectSeq(selectedToolNames, Registered)

\* selectRelevantTools(userMessage, topN): reply is the routing
\* createCompletion outcome, [threw, pieces]
selectRelevantTools(reply, n) ==
  IF reply.threw THEN allTools
  ELSE LET trimmed == [i \in 1..Len(reply.pieces) |-> TrimName(reply.pieces[i])]
           selectedToolNames == Take(SelectSeq(trimmed, NonEmpty), n)
           selectedTools == SelectSeq(selectedToolNames, Registered)
       IN IF Len(selectedTools) = 0 THEN allTools ELSE selectedTools

RouteThrow == [threw |-> TRUE, pieces |-> <<>>]
RouteReply(pieces) == [threw |-> FALSE, pieces |-> pieces]

\* the selection replies the environment gives inside a turn
TurnRouteReplies == {RouteThrow, RouteReply(<<"???">>), RouteReply(<<"get_current_time">>)}

\* every selection reply of at most MaxPieces pieces, and the failing call
PieceSeqs == UNION {[1..n -> Pieces] : n \in 0..MaxPieces}
RouteReplies == {RouteThrow} \cup {RouteReply(s) : s \in PieceSeqs}

\* selectRelevantTools called on its own with the reply drawn at the start
RouteSelect ==
  /\ route.pc = "ready"
  /\ route' = [route EXCEPT !.pc = "done", !.result = selectRelevantTools(route.reply, topN)]

\* Stage 1 of processMessage resolves, Stage 2's createCompletion is issued
RouteResponse(p, reply) ==
  /\ turn[p].pc = "routing"
  /\ turn' = [turn EXCEPT ![p] =
        [turn[p] EXCEPT !.relevantTools = selectRelevantTools(reply, topN), !.pc = "awaiting",
                        !.routingCalls = turn[p].routingCalls + 1]]
  /\ UNCHANGED <<providerKind, NODE_ENV, conversationHistory, lastActivityTime, now, turnsStarted, budget>>

(***************************************************************************)
(* Bookings: ReservationService over the Database and its constraints      *)
(***************************************************************************)
MaxBookOps == 3      \* booking operations per run

Phones == {"p1", "p2"}
Names == {"n1"}
\* candidate [start, end) ranges, in hours of one day
BookRanges == {<<0, 2>>, <<1, 3>>, <<2, 3>>}

NoDetails == [phone |-> "", start |-> -1, end |-> -1]

IdleOp ==
  [pc |-> "idle", kind |-> "none", tenant |-> "", phone |-> "", name |-> "",
   start |-> -1, end |-> -1, target |-> 0, outcome |-> "none", reported |-> NoDetails,
   stored |-> 0, collided |-> {}, foreign |-> FALSE, wroteCustomer |-> FALSE]

Rows(table) == {table[i] : i \in 1..Len(table)}

\* tsrange(s1, e1) && tsrange(s2, e2): half-open, an empty range meets nothing
Overlaps(s1, e1, s2, e2) == s1 < e1 /\ s2 < e2 /\ s1 < e2 /\ s2 < e1

no_overlapping_reservations_per_tenant_Dropped(table, row) == TRUE

\* the exclusion constraint: may `row` stand beside the other rows of table
no_overlapping_reservations_per_tenant(table, row) ==
  row.status = "active" =>
    \A r \in Rows(table) :
      (r.id # row.id /\ r.status = "active" /\ r.tenant = row.tenant)
        => ~Overlaps(row.start, row.end, r.start, r.end)

\* INSERT ... ON CONFLICT (phone_number, tenant_id) DO UPDATE SET name
createCustomer(custs, name, phoneNumber, tenantId) ==
  IF \E c \in custs : c.phone = phoneNumber /\ c.tenant = tenantId
  THEN {IF c.phone = phoneNumber /\ c.tenant = tenantId THEN [c EXCEPT !.name = name] ELSE c : c \in custs}
  ELSE custs \cup {[id |-> Cardinality(custs) + 1, tenant |-> tenantId, phone |-> phoneNumber, name |-> name]}

getCustomerByPhone(custs, phoneNumber, tenantId) ==
  {c \in custs : c.phone = phoneNumber /\ c.tenant = tenantId}

DuplicateRows_NoExclude(custs, table, customerPhone, startTime, endTime, excludeReservationId) ==
  {r \in Rows(table) :
     /\ \E c \in custs : c.id = r.customer /\ c.phone = customerPhone
     /\ r.status = "active"
     /\ Overlaps(startTime, endTime, r.start, r.end)}

\* the rows the COUNT(*) of checkDuplicateReservation counts
DuplicateRows(custs, table, customerPhone, startTime, endTime, excludeReservationId) ==
  {r \in Rows(table) :
     /\ \E c \in custs : c.id = r.customer /\ c.phone = customerPhone
     /\ r.status = "active"
     /\ Overlaps(startTime, endTime, r.start, r.end)
     /\ (excludeReservationId # 0 => r.id # excludeReservationId)}

checkDuplicateReservation(custs, table, customerPhone, startTime, endTime, excludeReservationId) ==
  DuplicateRows(custs, table, customerPhone, startTime, endTime, excludeReservationId) # {}

\* SELECT ... WHERE r.id = $1 AND r.tenant_id = $2
getReservationById(table, id, tenantId) ==
  {r \in Rows(table) : r.id = id /\ r.tenant = tenantId}

\* active rows of the tenant that meet the range, for inspection
Colliding(table, tenantId, startTime, endTime, self) ==
  {r \in Rows(table) :
     r.tenant = tenantId /\ r.status = "active" /\ r.id # self
     /\ Overlaps(startTime, endTime, r.start, r.end)}

\* active rows of other tenants whose customer has the phone and that meet the range
Foreign(custs, table, tenantId, phone, startTime, endTime) ==
  {r \in Rows(table) :
     /\ r.tenant # tenantId /\ r.status = "active"
     /\ Overlaps(startTime, endTime, r.start, r.end)
     /\ \E c \in custs : c.id = r.customer /\ c.phone = phone}

OpFree(p) == bop[p].pc \in {"idle", "done"}

Done(op, outcome) == [op EXCEPT !.pc = "done", !.outcome = outcome]

\* the create_reservation tool starts for a tenant
BeginCreate(p, tenantId, phone, name, range) ==
  /\ OpFree(p)
  /\ bookOps < MaxBookOps
  /\ bookOps' = bookOps + 1
  /\ bop' = [bop EXCEPT ![p] =
       [IdleOp EXCEPT !.pc = "precheck", !.kind = "create", !.tenant = tenantId,
                      !.phone = phone, !.name = name, !.start = range[1], !.end = range[2]]]
  /\ UNCHANGED <<customers, reservations>>

\* executeFunction create_reservation: the duplicate pre-check and its message
CreatePrecheck(p) ==
  /\ bop[p].pc = "precheck"
  /\ LET op == [bop[p] EXCEPT
                  !.foreign = Foreign(customers, reservations, bop[p].tenant, bop[p].phone,
                                      bop[p].start, bop[p].end) # {},
                  !.collided = Colliding(reservations, bop[p].tenant, bop[p].start, bop[p].end, 0)]
         isDuplicate == checkDuplicateReservation(customers, reservations, op.phone, op.start, op.end, 0)
     IN bop' = [bop EXCEPT ![p] =
          IF isDuplicate
          THEN [Done(op, "duplicate") EXCEPT
                  !.reported = [phone |-> op.phone, start |-> op.start, end |-> op.end]]
          ELSE [op EXCEPT !.pc = "customer"]]
  /\ UNCHANGED <<customers, reservations, bookOps>>

\* ReservationService.createReservation: get or create the customer
CreateCustomer(p) ==
  /\ bop[p].pc = "customer"
  /\ LET op == bop[p]
         customer == getCustomerByPhone(customers, op.phone, op.tenant)
     IN customers' = IF customer = {} \/ (\E c \in customer : c.name # op.name)
                     THEN createCustomer(customers, op.name, op.phone, op.tenant)
                     ELSE customers
  /\ bop' = [bop EXCEPT ![p].pc = "insert", ![p].wroteCustomer = (customers' # customers)]
  /\ UNCHANGED <<reservations, bookOps>>

\* Database.createReservation: the INSERT under the exclusion constraint
CreateInsert(p) ==
  /\ bop[p].pc = "insert"
  /\ LET op == [bop[p] EXCEPT
                  !.collided = Colliding(reservations, bop[p].tenant, bop[p].start, bop[p].end, 0)]
         customer == CHOOSE c \in customers : c.phone = op.phone /\ c.tenant = op.tenant
         row == [id |-> Len(reservations) + 1, tenant |-> op.tenant, customer |-> customer.id,
                 start |-> op.start, end |-> op.end, status |-> "active"]
     IN IF no_overlapping_reservations_per_tenant(reservations, row)
        THEN /\ reservations' = Append(reservations, row)
             /\ bop' = [bop EXCEPT ![p] = [Done(op, "created") EXCEPT !.stored = row.id]]
        ELSE /\ reservations' = reservations
             /\ bop' = [bop EXCEPT ![p] = Done(op, "exclusion")]
  /\ UNCHANGED <<customers, bookOps>>

\* the update_reservation_time tool starts for a tenant
BeginUpdate(p, tenantId, reservationId, range) ==
  /\ OpFree(p)
  /\ bookOps < MaxBookOps
  /\ bookOps' = bookOps + 1
  /\ bop' = [bop EXCEPT ![p] =
       [IdleOp EXCEPT !.pc = "u_read", !.kind = "update", !.tenant = tenantId,
                      !.target = reservationId, !.start = range[1], !.end = range[2]]]
  /\ UNCHANGED <<customers, reservations>>

\* updateReservationTime: getReservationById and the status check
UpdateRead(p) ==
  /\ bop[p].pc = "u_read"
  /\ LET op == bop[p]
         reservation == getReservationById(reservations, op.target, op.tenant)
     IN bop' = [bop EXCEPT ![p] =
          IF reservation = {} THEN Done(op, "not-found")
          ELSE LET r == CHOOSE r \in reservation : TRUE
                   c == CHOOSE c \in customers : c.id = r.customer
               IN IF r.status = "cancelled" THEN Done(op, "cancelled")
                  ELSE [op EXCEPT !.pc = "u_precheck", !.phone = c.phone]]
  /\ UNCHANGED <<customers, reservations, bookOps>>

\* updateReservationTime: the conflict check that leaves the booking itself out
UpdatePrecheck(p) ==
  /\ bop[p].pc = "u_precheck"
  /\ LET op == bop[p]
         hasConflict == checkDuplicateReservation(customers, reservations, op.phone,
                                                  op.start, op.end, op.target)
     IN bop' = [bop EXCEPT ![p] =
          IF hasConflict THEN Done(op, "duplicate") ELSE [op EXCEPT !.pc = "u_write"]]
  /\ UNCHANGED <<customers, reservations, bookOps>>

\* Database.updateReservation: the UPDATE under the exclusion constraint
UpdateWrite(p) ==
  /\ bop[p].pc = "u_write"
  /\ LET op == [bop[p] EXCEPT
                  !.collided = Colliding(reservations, bop[p].tenant, bop[p].start, bop[p].end,
                                         bop[p].target)]
         row == [reservations[op.target] EXCEPT !.start = op.start, !.end = op.end]
     IN IF no_overlapping_reservations_per_tenant(reservations, row)
        THEN /\ reservations' = [reservations EXCEPT ![op.target] = row]
             /\ bop' = [bop EXCEPT ![p] = [Done(op, "updated") EXCEPT !.stored = row.id]]
        ELSE /\ reservations' = reservations
             /\ bop' = [bop EXCEPT ![p] = Done(op, "exclusion")]
  /\ UNCHANGED <<customers, bookOps>>

\* the cancel_reservation tool starts for a tenant
BeginCancel(p, tenantId, reservationId) ==
  /\ OpFree(p)
  /\ bookOps < MaxBookOps
  /\ bookOps' = bookOps + 1
  /\ bop' = [bop EXCEPT ![p] =
       [IdleOp EXCEPT !.pc = "c_read", !.kind = "cancel", !.tenant = tenantId,
                      !.target = reservationId]]
  /\ UNCHANGED <<customers, reservations>>

\* cancelReservation: getReservationById and the status check
CancelRead(p) ==
  /\ bop[p].pc = "c_read"
  /\ LET op == bop[p]
         reservation == getReservationById(reservations, op.target, op.tenant)
     IN bop' = [bop EXCEPT ![p] =
          IF reservation = {} THEN Done(op, "not-found")
          ELSE IF \E r \in reservation : r.status = "cancelled" THEN Done(op, "cancelled")
          ELSE [op EXCEPT !.pc = "c_write"]]
  /\ UNCHANGED <<customers, reservations, bookOps>>

\* Database.cancelReservation: UPDATE ... SET status = 'cancelled'
CancelWrite(p) ==
  /\ bop[p].pc = "c_write"
  /\ reservations' = [reservations EXCEPT ![bop[p].target].status = "cancelled"]
  /\ bop' = [bop EXCEPT ![p] = [Done(bop[p], "cancelled-now") EXCEPT !.stored = bop[p].target]]
  /\ UNCHANGED <<customers, bookOps>>

(***************************************************************************)
(* ReservationService.parseTimeSlot                                        *)
(***************************************************************************)
MaxHour == 23        \* largest hour token of a slot expression

\* the word in front of the hours, as a sequence of letters
W_none == <<>>
W_sabah == <<"s", "a", "b", "a", "h">>
W_Sabah == <<"S", "a", "b", "a", "h">>
W_morning == <<"m", "o", "r", "n", "i", "n", "g">>
W_am == <<"a", "m">>
W_aksam == <<"a", "k", "s", "a", "m">>      \* evening; its third letter is s-cedilla
W_gece == <<"g", "e", "c", "e">>            \* night
SlotWords == {W_none, W_sabah, W_Sabah, W_morning, W_am, W_aksam, W_gece}

\* the i flag of the regular expression
Lower(c) == IF c = "S" THEN "s" ELSE c

\* pat occurs somewhere in w, whatever the case
HasSub(w, pat) ==
  \E i \in 1..(Len(w) - Len(pat) + 1) :
    \A k \in 1..Len(pat) : Lower(w[i + k - 1]) = pat[k]

\* /sabah|morning|am/i.test(hour)
isMorning(w) == HasSub(w, W_sabah) \/ HasSub(w, W_morning) \/ HasSub(w, W_am)

\* parseTimeSlot on "<word> <a>-<b>": match[1] = a, match[2] = b
parseTimeSlot(e) ==
  LET evening(h) == IF h >= 6 /\ h <= 11 THEN h + 12 ELSE h IN
  IF ~isMorning(e.word)
  THEN [startHour |-> evening(e.a), endHour |-> evening(e.b)]
  ELSE [startHour |-> e.a, endHour |-> e.b]

SlotExpressions == [word : SlotWords, a : 0..MaxHour, b : 0..MaxHour]

NoHours == [startHour |-> -1, endHour |-> -1]

ParseSlot ==
  /\ slot.pc = "ready"
  /\ slot' = [slot EXCEPT !.pc = "done", !.result = parseTimeSlot(slot.e)]

(***************************************************************************)
(* Database.setConversationHistory called on its own                       *)
(***************************************************************************)
MaxSavedTurns == 6   \* turns in a history handed to a direct save

DirectCall == <<ToolCall("c1", "get_current_time")>>

\* the messages one turn of processMessage leaves in `messages`, by shape
TurnMessages(shape) ==
  LET U == UserMessage("m1")
      A(content, calls) == Message("assistant", content, Len(calls) > 0, calls, "")
      T == ToolMessage("c1", "tool-ok")
  IN IF shape = "plain" THEN <<U, A("txt", <<>>)>>
     ELSE IF shape = "round" THEN <<U, A("", DirectCall), T, A("txt", <<>>)>>
     ELSE IF shape = "textround" THEN <<U, A("txt", DirectCall), T, A("txt", <<>>)>>
     ELSE <<U, A("", DirectCall), T, A("", DirectCall), T, A("txt", <<>>)>>

TurnShapes == {"plain", "round", "textround", "tworounds"}

RECURSIVE Flatten(_)
Flatten(shapes) ==
  IF Len(shapes) = 0 THEN <<>>
  ELSE TurnMessages(shapes[1]) \o Flatten(SubSeq(shapes, 2, Len(shapes)))

\* histories of up to MaxSavedTurns turns, with and without the system message
SavedHistories ==
  {pre \o Flatten(shapes) :
     pre \in {<<>>, <<SystemMessage>>},
     shapes \in UNION {[1..n -> TurnShapes] : n \in 0..MaxSavedTurns}}

DirectKey == getTenantKey("1", "u1")

SaveDirect ==
  /\ saveIn.pc = "ready"
  /\ LET s == setConversationHistory(conversationHistory, lastActivityTime, DirectKey,
                                     saveIn.messages, now)
     IN /\ conversationHistory' = s.h
        /\ lastActivityTime' = s.l
  /\ saveIn' = [saveIn EXCEPT !.pc = "done"]

(***************************************************************************)
(* Specifications                                                          *)
(***************************************************************************)
NoHistory == [k \in Keys |-> <<>>]
NoActivity == [k \in Keys |-> 0]

AgentIdle ==
  /\ conversationHistory = NoHistory
  /\ lastActivityTime = NoActivity
  /\ now = TickMs
  /\ turn = [p \in Procs |-> IdleTurn]
  /\ turnsStarted = 0

BookingIdle ==
  /\ customers = {}
  /\ reservations = <<>>
  /\ bop = [p \in Procs |-> IdleOp]
  /\ bookOps = 0

RouterIdle == route = [pc |-> "off", reply |-> RouteThrow, result |-> <<>>]

\* a component that takes no part in the specification at hand
Off == [pc |-> "off"]
FnIdle == fn = Off
CacheIdle == cache = Off
TenantsIdle == tenants = Off
HookIdle == hook = Off
SideIdle == FnIdle /\ CacheIdle /\ TenantsIdle /\ HookIdle

StoreIdle == saveIn = [pc |-> "off", messages |-> <<>>]

SlotIdle == slot = [pc |-> "off", e |-> [word |-> W_none, a |-> 0, b |-> 0], result |-> NoHours]

Init ==
  /\ providerKind \in {"openai", "gemini"}
  /\ NODE_ENV \in Environments
  /\ AgentIdle
  /\ budget = [variety |-> MaxVariety, throws |-> MaxThrows, ticks |-> MaxTicks, rounds |-> maxIterations,
               inflight |-> 1, tenants |-> {"1"}, steps |-> {TickMs}]
  /\ BookingIdle
  /\ RouterIdle
  /\ SideIdle
  /\ StoreIdle
  /\ SlotIdle

InitConc ==
  /\ providerKind \in {"openai", "gemini"}
  /\ NODE_ENV \in Environments
  /\ AgentIdle
  /\ budget = [variety |-> MaxVariety, throws |-> MaxThrows, ticks |-> MaxTicks, rounds |-> ConcRounds,
               inflight |-> 2, tenants |-> {"1"}, steps |-> {TickMs}]
  /\ BookingIdle
  /\ RouterIdle
  /\ SideIdle
  /\ StoreIdle
  /\ SlotIdle

AgentNext ==
  \/ \E p \in Procs, t \in budget.tenants, u \in Users :
        \/ StartTurn(p, t, u, UserTexts[turnsStarted + 1])
        \/ StartTurn(p, t, u, ResetCommand)
  \/ \E p \in Procs, reply \in TurnRouteReplies : RouteResponse(p, reply)
  \/ \E p \in Procs, reply \in PlainReplies \cup RichReplies \cup MalformedReplies : ModelResponse(p, reply)
  \/ \E p \in Procs : ModelFailure(p)
  \/ \E p \in Procs, o \in {"ok", "throw", "badargs"} : ToolResult(p, o)
  \/ \E d \in budget.steps : Tick(d)

Next == AgentNext /\ UNCHANGED bookVars /\ UNCHANGED routerVars /\ UNCHANGED pureVars /\ UNCHANGED sideVars

Spec == Init /\ [][Next]_vars

InitRouter ==
  /\ providerKind = "openai"
  /\ NODE_ENV = "production"
  /\ AgentIdle
  /\ budget = [variety |-> 0, throws |-> 0, ticks |-> 0, rounds |-> 0, inflight |-> 0, tenants |-> {}, steps |-> {}]
  /\ BookingIdle
  /\ SideIdle
  /\ route \in {[pc |-> "ready", reply |-> r, result |-> <<>>] : r \in RouteReplies}
  /\ StoreIdle
  /\ SlotIdle

NextRouter == RouteSelect /\ UNCHANGED agentVars /\ UNCHANGED bookVars /\ UNCHANGED pureVars /\ UNCHANGED sideVars

SpecRouter == InitRouter /\ [][NextRouter]_vars

InitBooking ==
  /\ providerKind = "openai"
  /\ NODE_ENV = "production"
  /\ AgentIdle
  /\ budget = [variety |-> 0, throws |-> 0, ticks |-> 0, rounds |-> 0, inflight |-> 0, tenants |-> Tenants, steps |-> {}]
  /\ BookingIdle
  /\ RouterIdle
  /\ SideIdle
  /\ StoreIdle
  /\ SlotIdle

BookingNext ==
  \/ \E p \in Procs, t \in budget.tenants, ph \in Phones, n \in Names, r \in BookRanges :
        BeginCreate(p, t, ph, n, r)
  \/ \E p \in Procs : CreatePrecheck(p)
  \/ \E p \in Procs : CreateCustomer(p)
  \/ \E p \in Procs : CreateInsert(p)
  \/ \E p \in Procs, t \in budget.tenants, id \in 1..MaxBookOps, r \in BookRanges :
        BeginUpdate(p, t, id, r)
  \/ \E p \in Procs : UpdateRead(p)
  \/ \E p \in Procs : UpdatePrecheck(p)
  \/ \E p \in Procs : UpdateWrite(p)
  \/ \E p \in Procs, t \in budget.tenants, id \in 1..MaxBookOps : BeginCancel(p, t, id)
  \/ \E p \in Procs : CancelRead(p)
  \/ \E p \in Procs : CancelWrite(p)

NextBooking == BookingNext /\ UNCHANGED agentVars /\ UNCHANGED routerVars /\ UNCHANGED pureVars /\ UNCHANGED sideVars

SpecBooking == InitBooking /\ [][NextBooking]_vars

SpecConc == InitConc /\ [][Next]_vars

\* one turn at a time, one tool round per turn, the clock advancing by 7 or
\* by 8 minutes between turns
InitIdle ==
  /\ providerKind \in {"openai", "gemini"}
  /\ NODE_ENV \in Environments
  /\ AgentIdle
  /\ budget = [variety |-> MaxVariety, throws |-> MaxThrows, ticks |-> MaxTicks, rounds |-> IdleRounds,
               inflight |-> 1, tenants |-> {"1"}, steps |-> TickSteps]
  /\ BookingIdle
  /\ RouterIdle
  /\ SideIdle
  /\ StoreIdle
  /\ SlotIdle

SpecIdle == InitIdle /\ [][Next]_vars

InitStore ==
  /\ providerKind = "openai"
  /\ NODE_ENV = "production"
  /\ AgentIdle
  /\ budget = [variety |-> 0, throws |-> 0, ticks |-> 0, rounds |-> 0, inflight |-> 0, tenants |-> {}, steps |-> {}]
  /\ BookingIdle
  /\ RouterIdle
  /\ SideIdle
  /\ saveIn \in {[pc |-> "ready", messages |-> h] : h \in SavedHistories}
  /\ SlotIdle

NextStore ==
  /\ SaveDirect
  /\ UNCHANGED <<providerKind, NODE_ENV, now, turn, turnsStarted, budget>>
  /\ UNCHANGED bookVars /\ UNCHANGED routerVars /\ UNCHANGED slot /\ UNCHANGED sideVars

SpecStore == InitStore /\ [][NextStore]_vars

InitSlot ==
  /\ providerKind = "openai"
  /\ NODE_ENV = "production"
  /\ AgentIdle
  /\ budget = [variety |-> 0, throws |-> 0, ticks |-> 0, rounds |-> 0, inflight |-> 0, tenants |-> {}, steps |-> {}]
  /\ BookingIdle
  /\ RouterIdle
  /\ SideIdle
  /\ StoreIdle
  /\ slot \in {[pc |-> "ready", e |-> e, result |-> NoHours] : e \in SlotExpressions}

NextSlot ==
  ParseSlot /\ UNCHANGED agentVars /\ UNCHANGED bookVars /\ UNCHANGED routerVars /\ UNCHANGED saveIn /\ UNCHANGED sideVars

SpecSlot == InitSlot /\ [][NextSlot]_vars

(***************************************************************************)
(* Claims                                                                  *)
(***************************************************************************)
LoopBounded ==
  \A p \in Procs :
    /\ turn[p].iteration <= maxIterations
    /\ turn[p].execCalls <= maxIterations + 1
    /\ turn[p].pc = "idle" /\ turn[p].turnNo > 0 => turn[p].reply # NoReply

\* the most ToolCalls one assistant turn of the environment carries
MaxCallsPerTurn ==
  CHOOSE n \in 0..4 :
    /\ \A r \in PlainReplies \cup RichReplies : Len(r[2]) <= n
    /\ \E r \in PlainReplies \cup RichReplies : Len(r[2]) = n

\* a bound on the steps a processMessage call has left
Rank(t) ==
  LET roundsLeft == maxIterations - t.iteration IN
  IF t.pc = "idle" THEN 0
  ELSE IF t.pc = "routing" THEN 2 + maxIterations * (MaxCallsPerTurn + 1)
  ELSE IF t.pc = "awaiting" THEN 1 + roundsLeft * (MaxCallsPerTurn + 1)
  ELSE LET calls == t.messages[Len(t.messages) - (t.callIdx - 1)].tool_calls
       IN (Len(calls) - t.callIdx + 1) + 1 + roundsLeft * (MaxCallsPerTurn + 1)

\* C1: every processMessage call finishes with a reply string, whatever the
\* model answers: each of its steps lowers a bound on the steps left, its tool
\* loop runs at most 7 rounds and it makes at most 8 execution-stage provider
\* calls.
C1_LoopTerminates ==
  /\ []LoopBounded
  /\ [][\A p \in Procs :
          turn[p].pc # "idle" /\ turn'[p] # turn[p] => Rank(turn'[p]) < Rank(turn[p])]_vars

C1_Witness ==
  \E p \in Procs :
    /\ turn[p].pc = "idle"
    /\ turn[p].outcome = "saved"
    /\ turn[p].iteration = maxIterations
    /\ turn[p].execCalls = maxIterations + 1
    /\ turn[p].handed[Len(turn[p].handed)].has_tool_calls

\* the tool-result messages after position i that carry id
ResultsFor(messages, i, id) ==
  {j \in (i + 1)..Len(messages) : messages[j].role = "tool" /\ messages[j].tool_call_id = id}

\* where the incoming message of the running turn sits in its history
LastUser(messages) ==
  CHOOSE i \in 1..Len(messages) :
    messages[i].role = "user" /\ \A j \in (i + 1)..Len(messages) : messages[j].role # "user"

AllCallsAnswered(messages) ==
  \A i \in LastUser(messages)..Len(messages) :
    messages[i].role = "assistant" /\ messages[i].has_tool_calls =>
      \A k \in 1..Len(messages[i].tool_calls) :
        Cardinality(ResultsFor(messages, i, messages[i].tool_calls[k].id)) = 1

\* C2: whenever an execution-stage provider call of a turn is in flight, every
\* ToolCall of every assistant message the turn has produced so far has
\* exactly one tool-result message carrying that call's id in the history.
C2_ResultsBeforeNextCall ==
  \A p \in Procs : turn[p].pc = "awaiting" => AllCallsAnswered(turn[p].messages)

\* C3: a tool execution whose domain logic throws appends the error text as
\* the tool-result of exactly that call and the turn goes on (next call of the
\* round, or the next provider call); processMessage does not fail.
C3_ToolThrowContained ==
  [][\A p \in Procs :
       turn[p].pc = "executing" /\ turn'[p].toolThrows = turn[p].toolThrows + 1 =>
         LET t == turn[p]
             calls == t.messages[Len(t.messages) - (t.callIdx - 1)].tool_calls
         IN /\ turn'[p].messages = Append(t.messages, ToolMessage(calls[t.callIdx].id, "tool-error"))
            /\ turn'[p].pc = IF t.callIdx < Len(calls) THEN "executing" ELSE "awaiting"
            /\ turn'[p].reply = NoReply
            /\ turn'[p].outcome = "none"]_vars

\* a two-call round whose first call threw: the second call was executed and
\* the next provider call is in flight
C3_Witness ==
  \E p \in Procs :
    LET m == turn[p].messages IN
    /\ turn[p].pc = "awaiting"
    /\ turn[p].toolThrows = 1
    /\ Len(m) >= 3
    /\ m[Len(m) - 2].role = "assistant" /\ Len(m[Len(m) - 2].tool_calls) = 2
    /\ m[Len(m) - 1].role = "tool" /\ m[Len(m) - 1].content = "tool-error"
    /\ m[Len(m)].role = "tool" /\ m[Len(m)].content = "tool-ok"

Contains(messages, m) == \E i \in 1..Len(messages) : messages[i] = m

\* C4: when two turns of one session key were in flight at the same time and
\* both saved (no time passed, so nothing expired), the stored history holds
\* the user message of each of them.
C4_NoLostUpdate ==
  \A p \in Procs : \A q \in Procs :
    ( /\ p # q
      /\ turn[p].pc = "idle" /\ turn[q].pc = "idle"
      /\ turn[p].outcome = "saved" /\ turn[q].outcome = "saved"
      /\ turn[p].key = turn[q].key
      /\ turn[q].overlapped
      /\ budget.ticks = MaxTicks )
    => /\ Contains(conversationHistory[turn[p].key], UserMessage(UserTexts[turn[p].turnNo]))
       /\ Contains(conversationHistory[turn[p].key], UserMessage(UserTexts[turn[q].turnNo]))

ActiveRows == {r \in Rows(reservations) : r.status = "active"}

\* C5: no two active reservations of one tenant have intersecting [start, end)
\* ranges, in every state reachable by interleaved create, update and cancel
\* operations.
C5_NoActiveOverlap ==
  \A a \in ActiveRows : \A b \in ActiveRows :
    (a.id # b.id /\ a.tenant = b.tenant) => ~Overlaps(a.start, a.end, b.start, b.end)

\* two active bookings of one tenant stand side by side and an insert that
\* passed the pre-check was refused by the constraint
C5_Witness ==
  /\ \E a \in ActiveRows : \E b \in ActiveRows : a.id # b.id /\ a.tenant = b.tenant
  /\ \E p \in Procs : bop[p].pc = "done" /\ bop[p].outcome = "exclusion"

\* C6: a create whose range met an active booking of its tenant when it was
\* decided ends rejected, stores nothing, and its error identifies a booking it
\* collided with, at the least by that booking's customer phone.
C6_ConflictIdentified ==
  \A p \in Procs :
    (bop[p].pc = "done" /\ bop[p].kind = "create" /\ bop[p].collided # {}) =>
      /\ bop[p].outcome \in {"duplicate", "exclusion"}
      /\ bop[p].stored = 0
      /\ \E a \in bop[p].collided :
           \E c \in customers : c.id = a.customer /\ c.phone = bop[p].reported.phone

\* C7: a create for a tenant whose range met no active booking of that tenant,
\* while another tenant held an active booking of the same phone over an
\* intersecting range, ends created, and both tenants have a customer row for
\* the phone.
C7_TenantIsolation ==
  \A p \in Procs :
    (bop[p].pc = "done" /\ bop[p].kind = "create" /\ bop[p].foreign /\ bop[p].collided = {}) =>
      /\ bop[p].outcome = "created"
      /\ \E c \in customers : c.phone = bop[p].phone /\ c.tenant = bop[p].tenant

\* the reply names a registered tool in some piece
NamesRegistered(reply) ==
  \E i \in 1..Len(reply.pieces) : Registered(TrimName(reply.pieces[i]))

\* C8: selectRelevantTools never returns an empty tool list, and it returns
\* the complete registered tool set whenever the selection call throws or the
\* reply names no registered tool.
C8_RoutingFallback ==
  route.pc = "done" =>
    /\ Len(route.result) > 0
    /\ (route.reply.threw \/ ~NamesRegistered(route.reply)) => route.result = allTools

\* the garbled reply "???" was routed and gave the full set
C8_Witness ==
  /\ route.pc = "done"
  /\ route.reply = RouteReply(<<"???">>)
  /\ route.result = allTools

\* C9: compacting the compacted form of a history handed to the store
\* changes nothing.
C9_CompactionIdempotent ==
  \A p \in Procs :
    optimizeMessages(optimizeMessages(turn[p].handed)) = optimizeMessages(turn[p].handed)

NoOrphanedToolResult(messages) ==
  \A j \in 1..Len(messages) :
    messages[j].role = "tool" =>
      \E i \in 1..(j - 1) :
        /\ messages[i].role = "assistant" /\ messages[i].has_tool_calls
        /\ \E k \in 1..Len(messages[i].tool_calls) :
             messages[i].tool_calls[k].id = messages[j].tool_call_id

\* C10: no stored history, and no history a turn works on after loading it,
\* holds a tool-result message without an earlier assistant message whose
\* toolCalls contain its toolCallId.
C10_NoOrphans ==
  /\ \A k \in Keys : NoOrphanedToolResult(conversationHistory[k])
  /\ \A p \in Procs : NoOrphanedToolResult(turn[p].messages)

\* a history with tool-result messages was saved and is what the store holds
C10_Witness ==
  \E p \in Procs :
    /\ turn[p].outcome = "saved"
    /\ \E i \in 1..Len(turn[p].handed) : turn[p].handed[i].role = "tool"
    /\ conversationHistory[turn[p].key] = StoredFor(turn[p].handed)
    /\ Len(conversationHistory[turn[p].key]) > 1

\* the word is a morning qualifier token
MorningToken(w) ==
  LET l == [i \in 1..Len(w) |-> Lower(w[i])] IN l \in {W_sabah, W_morning, W_am}

Shifted(h) == IF h >= 6 /\ h <= 11 THEN h + 12 ELSE h

\* C19: parseTimeSlot on two hour tokens without a morning qualifier gives
\* h + 12 for each hour h in 6..11 and h itself for every other hour; with a
\* morning qualifier it gives both hours as written.
C19_SlotHours ==
  slot.pc = "done" =>
    IF MorningToken(slot.e.word)
    THEN slot.result = [startHour |-> slot.e.a, endHour |-> slot.e.b]
    ELSE slot.result = [startHour |-> Shifted(slot.e.a), endHour |-> Shifted(slot.e.b)]

\* C20: parseTimeSlot returns an hour of 6..11 as written only when the
\* expression carries a morning qualifier token.
C20_LiteralOnlyWithMorning ==
  (/\ slot.pc = "done"
   /\ \/ slot.e.a \in 6..11 /\ slot.result.startHour = slot.e.a
      \/ slot.e.b \in 6..11 /\ slot.result.endHour = slot.e.b)
    => MorningToken(slot.e.word)

\* the registered names of a reply, in reply order
RegisteredNames(reply) ==
  SelectSeq([i \in 1..Len(reply.pieces) |-> TrimName(reply.pieces[i])], Registered)

\* C18: when the selection call returns and its reply names a registered
\* tool, the routed subset is the first N registered names of the reply in
\* reply order, so a registered name listed after unknown names is selected.
C18_FirstRegisteredNames ==
  (route.pc = "done" /\ ~route.reply.threw /\ NamesRegistered(route.reply)) =>
    route.result = Take(RegisteredNames(route.reply), topN)

\* C12: after a save the stored history is the system message of the saved
\* history (when it had one, as first element) followed by the most recent
\* non-system messages of the compacted history, at most 10 of them, in their
\* order.
C12_StoredShape ==
  saveIn.pc = "done" =>
    LET stored == conversationHistory[DirectKey]
        compacted == optimizeMessages(saveIn.messages)
        recent == SelectSeq(compacted, NotSystem)
        kept == SelectSeq(stored, NotSystem)
        n == Len(recent)
    IN /\ Len(kept) <= MAX_HISTORY_MESSAGES
       /\ Len(kept) = IF n > MAX_HISTORY_MESSAGES THEN MAX_HISTORY_MESSAGES ELSE n
       /\ kept = SubSeq(recent, n - Len(kept) + 1, n)
       /\ IF \E i \in 1..Len(saveIn.messages) : saveIn.messages[i].role = "system"
          THEN stored = <<SystemMessage>> \o kept
          ELSE stored = kept

\* a history with a system message whose compacted form has more than 10
\* other messages was saved
C12_Witness ==
  /\ saveIn.pc = "done"
  /\ Len(saveIn.messages) > 0 /\ saveIn.messages[1].role = "system"
  /\ Len(SelectSeq(optimizeMessages(saveIn.messages), NotSystem)) > MAX_HISTORY_MESSAGES
  /\ Len(conversationHistory[DirectKey]) = MAX_HISTORY_MESSAGES + 1

\* every tool-calling assistant message is followed, before the next user
\* message, by an assistant message without tool calls
RoundTripsCompleted(messages) ==
  \A i \in 1..Len(messages) :
    messages[i].role = "assistant" /\ messages[i].has_tool_calls =>
      \E j \in (i + 1)..Len(messages) :
        /\ messages[j].role = "assistant" /\ ~messages[j].has_tool_calls
        /\ \A k \in i..j : messages[k].role # "user"

KeptBySave(m) == m.role \in {"system", "user"} \/ (m.role = "assistant" /\ ~m.has_tool_calls)

\* C11: compacting a saved history whose tool round trips are all completed
\* leaves the system, user and final assistant text messages only: every
\* tool-calling assistant message and every tool-result is gone.
C11_RoundTripsCollapsed ==
  \A p \in Procs :
    (turn[p].outcome = "saved" /\ RoundTripsCompleted(turn[p].handed)) =>
      optimizeMessages(turn[p].handed) = SelectSeq(turn[p].handed, KeptBySave)

\* what the webhook's next turn for (tenantId, userId) would load
LoadedFor(store, last, tenantId, userId) ==
  [history |-> store[SessionKey(tenantId, userId)],
   lastActivity |-> last[SessionKey(tenantId, userId)]]

\* C13: sessions are partitioned by (tenantId, userId): no step of a turn
\* (start, reset, expiry at load, save) made for tenant t1 and user u changes
\* the history a load for (t2, u), t2 different from t1, returns
C13_SessionPartition ==
  [][\A p \in Procs :
       turn'[p] # turn[p] =>
         \A t2 \in Tenants \ {turn'[p].tenantId} :
           LoadedFor(conversationHistory', lastActivityTime', t2, turn'[p].userId)
             = LoadedFor(conversationHistory, lastActivityTime, t2, turn'[p].userId)]_vars

\* the first message of p's turn is being loaded and primed in this step
Loads(p) == turn[p].pc = "idle" /\ turn'[p].pc = "routing"

IdleWindowMs == 15 * 60 * 1000

CapHitWithPending(p) ==
  /\ turn[p].pc = "awaiting"
  /\ turn[p].iteration = maxIterations
  /\ turn'[p].decoded = turn[p].decoded + 1
  /\ turn'[p].pendingCalls > 0

\* the text processMessage makes of the last assistant turn of `handed`
BestText(handed) ==
  IF handed[Len(handed)].content # "" THEN handed[Len(handed)].content ELSE NO_ANSWER

\* the turn ended in this step without error and with its last tool calls
\* left unexecuted
EndedAtCap(p) ==
  /\ turn'[p].pc = "idle"
  /\ turn'[p].outcome = "saved"
  /\ Len(turn'[p].handed) > 0
  /\ turn'[p].handed[Len(turn'[p].handed)].role = "assistant"
  /\ turn'[p].handed[Len(turn'[p].handed)].has_tool_calls
  /\ conversationHistory'[turn'[p].key] = StoredFor(turn'[p].handed)

ProviderCallFails(p) ==
  /\ turn[p].pc = "awaiting"
  /\ turn'[p].execCalls = turn[p].execCalls + 1
  /\ turn'[p].decoded = turn[p].decoded

\* C16: a failing execution-stage provider call is caught inside
\* processMessage: the call returns (it does not throw) with the generic
\* apology, no further provider call is made for the turn, and the stored
\* session is left as it was
C16_ProviderFailureCaught ==
  [][\A p \in Procs :
       ProviderCallFails(p) =>
         /\ turn'[p].pc = "idle"
         /\ turn'[p].outcome = "error"
         /\ turn'[p].reply = ERROR_APOLOGY
         /\ conversationHistory' = conversationHistory
         /\ lastActivityTime' = lastActivityTime]_vars

\* a turn ended by a provider failure after at least one tool round
C16_Witness ==
  \E p \in Procs :
    /\ turn[p].pc = "idle"
    /\ turn[p].outcome = "error"
    /\ turn[p].reply = ERROR_APOLOGY
    /\ turn[p].decoded >= 1
    /\ turn[p].execCalls = turn[p].decoded + 1

\* C17: a model turn with a malformed tool-call payload (Gemini's
\* MALFORMED_FUNCTION_CALL, or arguments that are not valid JSON) does not
\* abort the turn: the turn met one, and ended normally with its session saved
C17_MalformedDegrades ==
  \A p \in Procs :
    (turn[p].pc = "idle" /\ turn[p].malformed > 0) =>
      /\ turn[p].outcome = "saved"
      /\ conversationHistory[turn[p].key] = StoredFor(turn[p].handed)

(***************************************************************************)
(* Week dates: ReservationService.getWeekRange and the day resolution of   *)
(* create_reservation                                                      *)
(***************************************************************************)
\* the agent, the datastore, the router and the pure-call variables at rest
BaseIdle ==
  /\ providerKind = "openai"
  /\ NODE_ENV = "production"
  /\ AgentIdle
  /\ budget = [variety |-> 0, throws |-> 0, ticks |-> 0, rounds |-> 0, inflight |-> 0, tenants |-> {}, steps |-> {}]
  /\ BookingIdle
  /\ RouterIdle
  /\ StoreIdle
  /\ SlotIdle

baseVars == <<agentVars, bookVars, routerVars, pureVars>>

FirstDay == 17       \* first calendar day a reference instant falls on
LastDay == 30        \* last calendar day a reference instant falls on
MaxWeekOffset == 2   \* week offsets range over -MaxWeekOffset..MaxWeekOffset

DayMs == 24 * 60 * 60 * 1000

\* a Date in local time: calendar day number (day 0 = Thursday 1970-01-01)
\* and milliseconds since that day's midnight
DateOf(day, ms) == [day |-> day, ms |-> ms]

\* Date.prototype.getDay: 0 = Sunday .. 6 = Saturday
getDay(d) == (d.day + 4) % 7

diff_NoSundayCase(currentDay) == 1 - currentDay

\* `currentDay === 0 ? -6 : 1 - currentDay`
diff(currentDay) == IF currentDay = 0 THEN -6 ELSE 1 - currentDay

getWeekRange(nowDate, weekOffset) ==
  LET currentDay == getDay(nowDate)
      startDate == DateOf(nowDate.day + diff(currentDay) + (weekOffset * 7), 0)
      endDate == DateOf(startDate.day + 6, DayMs - 1)
  IN [startDate |-> startDate, endDate |-> endDate]

getWeekStartDate(nowDate, weekOffset) == getWeekRange(nowDate, weekOffset).startDate

\* dayMap of create_reservation (Turkish day names written in ASCII)
DayNames == <<"pazartesi", "sali", "carsamba", "persembe", "cuma", "cumartesi", "pazar">>
dayMap(name) ==
  IF \E i \in 1..Len(DayNames) : DayNames[i] = name
  THEN (CHOOSE i \in 1..Len(DayNames) : DayNames[i] = name) - 1
  ELSE -1

\* weekStartDate, then reservationDate.setDate(weekStartDate.getDate() + dayOffset)
ResolveDay(nowDate, weekOffset, dayName) ==
  LET dayOffset == dayMap(dayName)
      weekStartDate == getWeekStartDate(nowDate, weekOffset)
  IN IF dayOffset = -1
     THEN [valid |-> FALSE, weekStartDate |-> weekStartDate, reservationDate |-> weekStartDate]
     ELSE [valid |-> TRUE, weekStartDate |-> weekStartDate,
           reservationDate |-> DateOf(weekStartDate.day + dayOffset, weekStartDate.ms)]

NowDates == {DateOf(d, ms) : d \in FirstDay..LastDay, ms \in {0, DayMs \div 2, DayMs - 1}}
DayInputs == {DayNames[i] : i \in 1..Len(DayNames)} \cup {"gun"}

\* the date part of create_reservation run on the input drawn at the start
ResolveDate ==
  /\ fn.pc = "ready"
  /\ fn' = [fn EXCEPT !.pc = "done",
                      !.out = ResolveDay(fn.nowDate, fn.week_offset, fn.day_of_week)]

InitWeek ==
  /\ BaseIdle
  /\ fn \in {[pc |-> "ready", nowDate |-> n, week_offset |-> k, day_of_week |-> d,
              out |-> [valid |-> FALSE, weekStartDate |-> n, reservationDate |-> n]] :
               n \in NowDates, k \in (0 - MaxWeekOffset)..MaxWeekOffset, d \in DayInputs}
  /\ CacheIdle /\ TenantsIdle /\ HookIdle

NextWeek == ResolveDate /\ UNCHANGED baseVars /\ UNCHANGED <<cache, tenants, hook>>

SpecWeek == InitWeek /\ [][NextWeek]_vars

\* the Monday on or before calendar day n, found by counting back
RECURSIVE MondayOnOrBefore(_)
MondayOnOrBefore(n) == IF getDay(DateOf(n, 0)) = 1 THEN n ELSE MondayOnOrBefore(n - 1)

\* C21: getWeekStartDate(k) is 00:00 of the Monday of the week containing
\* now, shifted by 7*k days; the date resolved for weekday index d is that
\* Monday plus d days; with offset 0 it lies in the Monday-to-Sunday week
\* that contains now
C21_WeekStartIsMonday ==
  fn.pc = "done" =>
    LET monday == MondayOnOrBefore(fn.nowDate.day)
        start == fn.out.weekStartDate
        d == dayMap(fn.day_of_week)
    IN /\ start = DateOf(monday + 7 * fn.week_offset, 0)
       /\ fn.out.valid =>
            /\ fn.out.reservationDate = DateOf(start.day + d, 0)
            /\ fn.week_offset = 0 =>
                 /\ monday <= fn.out.reservationDate.day
                 /\ fn.out.reservationDate.day <= monday + 6
                 /\ monday <= fn.nowDate.day /\ fn.nowDate.day <= monday + 6

\* a Sunday afternoon, next week's Saturday resolved
C21_Witness ==
  /\ fn.pc = "done"
  /\ getDay(fn.nowDate) = 0
  /\ fn.nowDate.ms > 0
  /\ fn.week_offset = 1
  /\ fn.out.valid
  /\ fn.out.reservationDate.day = fn.nowDate.day + 6

\* the update in flight at p moves booking X to a range that meets X's own
\* current range and the range of no other active booking
MeetsOnlyItself(p) ==
  LET op == bop[p]
      X == reservations[op.target]
  IN /\ op.kind = "update"
     /\ X.status = "active"
     /\ Overlaps(op.start, op.end, X.start, X.end)
     /\ \A r \in Rows(reservations) :
          (r.id # X.id /\ r.status = "active") => ~Overlaps(op.start, op.end, r.start, r.end)

\* C22: updateReservationTime leaves the booking itself out of the conflict
\* check: a move to a range that meets only the booking's own current range
\* passes the check and is applied
C22_SelfExcluded ==
  [][\A p \in Procs :
       /\ (bop[p].pc = "u_precheck" /\ MeetsOnlyItself(p) /\ bop'[p] # bop[p])
             => bop'[p].pc = "u_write"
       /\ (bop[p].pc = "u_write" /\ MeetsOnlyItself(p) /\ bop'[p] # bop[p])
             => /\ bop'[p].outcome = "updated"
                /\ reservations'[bop[p].target].start = bop[p].start
                /\ reservations'[bop[p].target].end = bop[p].end]_vars

\* booking X was moved onto a range that meets its former range
C22_Witness ==
  \E p \in Procs :
    /\ bop[p].pc = "done"
    /\ bop[p].kind = "update"
    /\ bop[p].outcome = "updated"
    /\ bop[p].start = 1 /\ bop[p].end = 3
    /\ Len(reservations) = 1
    /\ reservations[1].start = 1 /\ reservations[1].end = 3
    /\ bookOps = 2

(***************************************************************************)
(* CacheService and the cached week table of ReservationService            *)
(***************************************************************************)
MaxCacheOps == 3     \* reservation operations per run that touch the cache
MaxCacheFaults == 1  \* cache commands per run that raise an error

Weeks == {0, 2}      \* week offsets the operations are about

\* getWeekTableCacheKey(weekOffset)
getWeekTableCacheKey(weekOffset) == "week_table:" \o ToString(weekOffset)

CacheKeys == {getWeekTableCacheKey(w + d) : w \in Weeks, d \in {-1, 0, 1}}

NoEntry == [present |-> FALSE, rows |-> {}, owner |-> ""]
Entry(rows, owner) == [present |-> TRUE, rows |-> rows, owner |-> owner]

\* CacheService.get: the command runs inside try/catch, an error reads as a miss
cacheGet(redis, key, fails) ==
  IF fails THEN [threw |-> FALSE, value |-> NoEntry] ELSE [threw |-> FALSE, value |-> redis[key]]

\* CacheService.set
cacheSet(redis, key, value, fails) ==
  [threw |-> FALSE, redis |-> IF fails THEN redis ELSE [redis EXCEPT ![key] = value]]

\* CacheService.del
cacheDel(redis, key, fails) ==
  [threw |-> FALSE, redis |-> IF fails THEN redis ELSE [redis EXCEPT ![key] = NoEntry]]

IdleCacheOp ==
  [pc |-> "idle", kind |-> "none", tenant |-> "", week |-> 0, id |-> 0,
   fetched |-> {}, result |-> {}, outcome |-> "none", hit |-> FALSE, servedFrom |-> "",
   offset |-> 0, mustSee |-> {}, faulted |-> FALSE]

CacheOpFree(p) == cache.op[p].pc \in {"idle", "done"}

\* a cache command of this step raises an error or not
Fault(fails) ==
  IF fails THEN cache.faults > 0 ELSE TRUE

\* getReservationsByWeek(weekOffset) starts for a tenant
BeginRead(p, tenantId, weekOffset) ==
  /\ cache.pc = "on"
  /\ CacheOpFree(p)
  /\ \A q \in Procs : q < p => ~CacheOpFree(q)
  /\ cache.started < MaxCacheOps
  /\ cache' = [cache EXCEPT
       !.started = cache.started + 1,
       !.tenantsSeen = cache.tenantsSeen \cup {tenantId},
       !.overlap = cache.overlap \/ (\E q \in Procs : ~CacheOpFree(q)),
       !.op[p] = [IdleCacheOp EXCEPT !.pc = "r_get", !.kind = "read", !.tenant = tenantId,
                                     !.week = weekOffset,
                                     !.mustSee = cache.table[tenantId][weekOffset] \cap cache.returned]]

\* cacheService.get(cacheKey) and `if (cached) return cached`
ReadGet(p, fails) ==
  /\ cache.pc = "on"
  /\ cache.op[p].pc = "r_get"
  /\ Fault(fails)
  /\ LET op == [cache.op[p] EXCEPT !.faulted = fails]
         got == cacheGet(cache.redis, getWeekTableCacheKey(op.week), fails)
     IN cache' = [cache EXCEPT
          !.faults = IF fails THEN cache.faults - 1 ELSE cache.faults,
          !.op[p] = IF got.threw
                    THEN [op EXCEPT !.pc = "done", !.outcome = "error"]
                    ELSE IF got.value.present
                    THEN [op EXCEPT !.pc = "done", !.outcome = "ok", !.hit = TRUE,
                                    !.result = got.value.rows, !.servedFrom = got.value.owner]
                    ELSE [op EXCEPT !.pc = "r_query"]]

\* db.getReservationsByDateRange for the week
ReadQuery(p) ==
  /\ cache.pc = "on"
  /\ cache.op[p].pc = "r_query"
  /\ cache' = [cache EXCEPT
       !.op[p] = [cache.op[p] EXCEPT !.pc = "r_set",
                                     !.fetched = cache.table[cache.op[p].tenant][cache.op[p].week]]]

\* cacheService.set(cacheKey, reservations, 300) and the return
ReadSet(p, fails) ==
  /\ cache.pc = "on"
  /\ cache.op[p].pc = "r_set"
  /\ Fault(fails)
  /\ LET op == [cache.op[p] EXCEPT !.faulted = @ \/ fails]
         put == cacheSet(cache.redis, getWeekTableCacheKey(op.week), Entry(op.fetched, op.tenant), fails)
     IN cache' = [cache EXCEPT
          !.faults = IF fails THEN cache.faults - 1 ELSE cache.faults,
          !.redis = put.redis,
          !.op[p] = IF put.threw
                    THEN [op EXCEPT !.pc = "done", !.outcome = "error"]
                    ELSE [op EXCEPT !.pc = "done", !.outcome = "ok", !.result = op.fetched]]

\* a booking mutation (create, cancel, time or price update) or a customer
\* update starts for a tenant, on a booking of the given week
BeginWrite(p, tenantId, weekOffset, kind) ==
  /\ cache.pc = "on"
  /\ CacheOpFree(p)
  /\ \A q \in Procs : q < p => ~CacheOpFree(q)
  /\ cache.started < MaxCacheOps
  /\ cache' = [cache EXCEPT
       !.started = cache.started + 1,
       !.tenantsSeen = cache.tenantsSeen \cup {tenantId},
       !.kindsSeen = cache.kindsSeen \cup {kind},
       !.overlap = cache.overlap \/ (\E q \in Procs : ~CacheOpFree(q)),
       !.op[p] = [IdleCacheOp EXCEPT !.pc = "w_commit", !.kind = kind, !.tenant = tenantId,
                                     !.week = weekOffset, !.id = cache.started + 1]]

\* the datastore statement of the mutation commits: a booking mutation shows
\* in the week of the booking, a customer update in every week the customer
\* has a booking in
WriteCommit(p) ==
  /\ cache.pc = "on"
  /\ cache.op[p].pc = "w_commit"
  /\ LET op == cache.op[p] IN
     cache' = [cache EXCEPT
       !.table[op.tenant] =
          [w \in Weeks |-> IF w = op.week \/ op.kind = "customer"
                           THEN cache.table[op.tenant][w] \cup {op.id}
                           ELSE cache.table[op.tenant][w]],
       !.op[p] = [op EXCEPT !.pc = "w_del", !.offset = op.week - 1]]

\* one pass of the loop of invalidateWeekCache, and after the last the return
WriteDel(p, fails) ==
  /\ cache.pc = "on"
  /\ cache.op[p].pc = "w_del"
  /\ Fault(fails)
  /\ LET op == [cache.op[p] EXCEPT !.faulted = @ \/ fails]
         gone == cacheDel(cache.redis, getWeekTableCacheKey(op.offset), fails)
         last == op.offset = op.week + 1
     IN cache' = [cache EXCEPT
          !.faults = IF fails THEN cache.faults - 1 ELSE cache.faults,
          !.redis = gone.redis,
          !.returned = IF last /\ ~gone.threw THEN cache.returned \cup {op.id} ELSE cache.returned,
          !.op[p] = IF gone.threw
                    THEN [op EXCEPT !.pc = "done", !.outcome = "error"]
                    ELSE IF last THEN [op EXCEPT !.pc = "done", !.outcome = "ok"]
                    ELSE [op EXCEPT !.offset = op.offset + 1]]

\* the expiry set by setex passes for an entry
Expire(key) ==
  /\ cache.pc = "on"
  /\ cache.redis[key].present
  /\ cache' = [cache EXCEPT !.redis[key] = NoEntry]

CacheNext ==
  \/ \E p \in Procs, t \in Tenants, w \in Weeks : BeginRead(p, t, w)
  \/ \E p \in Procs, fails \in BOOLEAN : ReadGet(p, fails)
  \/ \E p \in Procs : ReadQuery(p)
  \/ \E p \in Procs, fails \in BOOLEAN : ReadSet(p, fails)
  \/ \E p \in Procs, t \in Tenants, w \in Weeks, k \in {"booking", "customer"} : BeginWrite(p, t, w, k)
  \/ \E p \in Procs : WriteCommit(p)
  \/ \E p \in Procs, fails \in BOOLEAN : WriteDel(p, fails)
  \/ \E k \in CacheKeys : Expire(k)

InitCache ==
  /\ BaseIdle
  /\ FnIdle /\ TenantsIdle /\ HookIdle
  /\ cache = [pc |-> "on",
              redis |-> [k \in CacheKeys |-> NoEntry],
              table |-> [t \in Tenants |-> [w \in Weeks |-> {}]],
              op |-> [p \in Procs |-> IdleCacheOp],
              started |-> 0, faults |-> MaxCacheFaults, returned |-> {}, tenantsSeen |-> {},
              kindsSeen |-> {}, overlap |-> FALSE]

NextCache == CacheNext /\ UNCHANGED baseVars /\ UNCHANGED <<fn, tenants, hook>>

SpecCache == InitCache /\ [][NextCache]_vars

\* C23: once a mutation has returned, every later getReservationsByWeek for
\* its week returns data that includes it (runs of one tenant in which no
\* cache command fails)
C23_ReadsSeeReturnedWrites ==
  \A p \in Procs :
    LET op == cache.op[p] IN
    (/\ cache.pc = "on"
     /\ op.pc = "done" /\ op.kind = "read" /\ op.outcome = "ok"
     /\ Cardinality(cache.tenantsSeen) = 1
     /\ cache.faults = MaxCacheFaults)
      => op.mustSee \subseteq op.result

\* C24: a failing cache command never changes the outcome of a reservation
\* operation: in runs of one tenant whose operations are booking mutations
\* and reads that follow one another, with or without failing commands, no
\* operation fails, a mutation is committed when it returns, and a read
\* returns the week as the datastore holds it
C24_CacheFaultsHarmless ==
  \A p \in Procs :
    LET op == cache.op[p] IN
    (/\ cache.pc = "on"
     /\ op.pc = "done"
     /\ Cardinality(cache.tenantsSeen) = 1
     /\ "customer" \notin cache.kindsSeen
     /\ ~cache.overlap)
      => /\ op.outcome = "ok"
         /\ op.kind = "booking" => op.id \in cache.table[op.tenant][op.week]
         /\ op.kind = "read" => op.mustSee \subseteq op.result

\* C28: a week table cached while serving one tenant is never returned to a
\* request of another tenant
C28_CachePartitionedByTenant ==
  \A p \in Procs :
    LET op == cache.op[p] IN
    (cache.pc = "on" /\ op.pc = "done" /\ op.kind = "read" /\ op.hit)
      => op.servedFrom = op.tenant

\* C25: every provider call of a turn, the routing-stage call and each
\* execution-stage call, produces exactly one usage record: a turn that ran
\* to its save has logged as many records as it made provider calls
C25_EveryCallMetered ==
  \A p \in Procs :
    (turn[p].pc = "idle" /\ turn[p].outcome = "saved") =>
      turn[p].usageLogged = turn[p].routingCalls + turn[p].execCalls

(***************************************************************************)
(* Provider abstraction: tool results sent back to the backend             *)
(***************************************************************************)
MaxWireCalls == 3    \* function calls in one decoded backend turn

\* call ids a backend may put on a function call ("" = none supplied)
WireIds == {"", "id1", "id2"}

\* the function calls of one backend turn: <<id, name>> each
WireCalls(kind) ==
  LET ids == IF kind = "openai" THEN WireIds \ {""} ELSE WireIds
  IN UNION {[1..n -> ids \X CallNames] : n \in 1..MaxWireCalls}

\* the decoded ToolCalls of the turn
DecodeWire(kind, calls) ==
  [k \in 1..Len(calls) |-> ToolCall(DecodeId(kind, calls[k][1], calls[k][2]), calls[k][2])]

\* processMessage: the tool-result message pushed for a ToolCall
ResultFor(toolCall) == ToolMessage(toolCall.id, "tool-ok")

\* what createCompletion sends the backend to tie a tool-result to its call:
\* OpenAI tool_call_id, Gemini functionResponse.name
EncodeResult(kind, msg) ==
  IF kind = "openai" THEN msg.tool_call_id
  ELSE IF msg.tool_call_id # "" THEN msg.tool_call_id ELSE "unknown"

\* a backend turn is decoded, its calls are answered, and the results are
\* encoded for the next createCompletion
SendResults ==
  /\ fn.pc = "ready"
  /\ LET toolCalls == DecodeWire(fn.kind, fn.calls)
     IN fn' = [fn EXCEPT !.pc = "done",
                         !.sent = [k \in 1..Len(toolCalls) |-> EncodeResult(fn.kind, ResultFor(toolCalls[k]))]]

InitWire ==
  /\ BaseIdle
  /\ fn \in {[pc |-> "ready", kind |-> k, calls |-> c, sent |-> <<>>] :
               k \in {"openai", "gemini"}, c \in WireCalls("gemini")}
  /\ fn.calls \in WireCalls(fn.kind)
  /\ CacheIdle /\ TenantsIdle /\ HookIdle

NextWire == SendResults /\ UNCHANGED baseVars /\ UNCHANGED <<cache, tenants, hook>>

SpecWire == InitWire /\ [][NextWire]_vars

\* C26: every tool-result goes back to the id-keyed backend with the id of
\* the call that produced it and to the name-keyed backend with the function
\* name of the call that produced it, whether or not the backend supplied a
\* call id
C26_ResultsCorrelate ==
  fn.pc = "done" =>
    /\ Len(fn.sent) = Len(fn.calls)
    /\ \A k \in 1..Len(fn.calls) :
         /\ fn.kind = "openai" => fn.sent[k] = fn.calls[k][1]
         /\ fn.kind = "gemini" => fn.sent[k] = fn.calls[k][2]

(***************************************************************************)
(* create_reservation: the customer phone                                  *)
(***************************************************************************)
MaxPhoneLen == 3     \* characters in a phone string

\* characters the model may put in customer_phone
PhoneChars == {"5", "0", " ", "-", "(", ")", "+"}

NotSpace(c) == c # " "

\* args.customer_phone.replace(/\s+/g, '')
StripSpaces(phone) == SelectSeq(phone, NotSpace)

PhoneInputs == UNION {[1..n -> PhoneChars] : n \in 0..MaxPhoneLen}

\* create_reservation: the phone handed to checkDuplicateReservation and to
\* createReservation
NormalizePhone ==
  /\ fn.pc = "ready"
  /\ LET phone == StripSpaces(fn.customer_phone)
     IN fn' = [fn EXCEPT !.pc = "done", !.checked = phone, !.stored = phone]

InitPhone ==
  /\ BaseIdle
  /\ fn \in {[pc |-> "ready", customer_phone |-> s, checked |-> <<>>, stored |-> <<>>] :
               s \in PhoneInputs}
  /\ CacheIdle /\ TenantsIdle /\ HookIdle

NextPhone == NormalizePhone /\ UNCHANGED baseVars /\ UNCHANGED <<cache, tenants, hook>>

SpecPhone == InitPhone /\ [][NextPhone]_vars

IsDigit(c) == c \in {"0", "1", "2", "3", "4", "5", "6", "7", "8", "9"}

\* C27: the phone create_reservation checks and stores is the phone the model
\* passed with every non-digit character removed
C27_PhoneDigitsOnly ==
  fn.pc = "done" =>
    /\ fn.checked = SelectSeq(fn.customer_phone, IsDigit)
    /\ fn.stored = SelectSeq(fn.customer_phone, IsDigit)

(***************************************************************************)
(* TenantService.getOrCreateTenant over the get_or_create_tenant function  *)
(***************************************************************************)
MaxTenantCalls == 4  \* getOrCreateTenant calls per run

BusinessNumbers == {"b1", "b2"}

IdleTenantCall == [pc |-> "idle", phone |-> "", v_tenant_id |-> 0, result |-> 0, outcome |-> "none"]

TenantCallFree(p) == tenants.call[p].pc \in {"idle", "done"}

\* SELECT id FROM tenants WHERE whatsapp_phone_number = p_phone_number (0 = NULL)
tenantIdOf(rows, phone) ==
  IF \E r \in rows : r.phone = phone
  THEN (CHOOSE r \in rows : r.phone = phone).id
  ELSE 0

\* the webhook calls getOrCreateTenant for a business number
BeginGetOrCreate(p, phone) ==
  /\ tenants.pc = "on"
  /\ TenantCallFree(p)
  /\ \A q \in Procs : q < p => ~TenantCallFree(q)
  /\ tenants.started < MaxTenantCalls
  /\ tenants' = [tenants EXCEPT
       !.started = tenants.started + 1,
       !.call[p] = [IdleTenantCall EXCEPT !.pc = "select", !.phone = phone]]

\* get_or_create_tenant: SELECT id INTO v_tenant_id
TenantSelect(p) ==
  /\ tenants.pc = "on"
  /\ tenants.call[p].pc = "select"
  /\ tenants' = [tenants EXCEPT
       !.call[p] = [tenants.call[p] EXCEPT
                      !.pc = "insert",
                      !.v_tenant_id = tenantIdOf(tenants.rows, tenants.call[p].phone)]]

\* get_or_create_tenant: IF v_tenant_id IS NULL THEN INSERT (under the UNIQUE
\* constraint on whatsapp_phone_number), RETURN; getOrCreateTenant rethrows
\* an error of the query
TenantInsertOrReturn(p) ==
  /\ tenants.pc = "on"
  /\ tenants.call[p].pc = "insert"
  /\ LET c == tenants.call[p] IN
     IF c.v_tenant_id # 0
     THEN tenants' = [tenants EXCEPT
            !.call[p] = [c EXCEPT !.pc = "done", !.result = c.v_tenant_id, !.outcome = "ok"]]
     ELSE IF \E r \in tenants.rows : r.phone = c.phone
     THEN tenants' = [tenants EXCEPT
            !.serial = tenants.serial + 1,
            !.call[p] = [c EXCEPT !.pc = "done", !.outcome = "unique_violation"]]
     ELSE tenants' = [tenants EXCEPT
            !.serial = tenants.serial + 1,
            !.rows = tenants.rows \cup {[id |-> tenants.serial + 1, phone |-> c.phone]},
            !.call[p] = [c EXCEPT !.pc = "done", !.result = tenants.serial + 1, !.outcome = "ok"]]

TenantNext ==
  \/ \E p \in Procs, b \in BusinessNumbers : BeginGetOrCreate(p, b)
  \/ \E p \in Procs : TenantSelect(p)
  \/ \E p \in Procs : TenantInsertOrReturn(p)

InitTenant ==
  /\ BaseIdle
  /\ FnIdle /\ CacheIdle /\ HookIdle
  /\ tenants = [pc |-> "on", rows |-> {}, serial |-> 0,
                call |-> [p \in Procs |-> IdleTenantCall], started |-> 0]

NextTenant == TenantNext /\ UNCHANGED baseVars /\ UNCHANGED <<fn, cache, hook>>

SpecTenant == InitTenant /\ [][NextTenant]_vars

\* C29: getOrCreateTenant is an atomic get-or-create: no call fails, calls
\* with the same business number return the same tenant id, and exactly one
\* tenant row exists for a number that was asked for
C29_GetOrCreateAtomic ==
  tenants.pc = "on" =>
    \A p \in Procs :
      tenants.call[p].pc = "done" =>
        /\ tenants.call[p].outcome = "ok"
        /\ Cardinality({r \in tenants.rows : r.phone = tenants.call[p].phone}) = 1
        /\ tenants.call[p].result = tenantIdOf(tenants.rows, tenants.call[p].phone)

(***************************************************************************)
(* POST /webhook: message de-duplication with processedMessages            *)
(***************************************************************************)
MaxHookMinutes == 11  \* minutes of server uptime explored
MaxDeliveries == 4    \* webhook deliveries per run

MESSAGE_CACHE_DURATION == 5 * 60 * 1000

MinuteMs == 60 * 1000

MessageIds == {"wamid1", "wamid2"}

MessageTypes == {"text", "image"}

NeverSeen == 0 - 1

NoDelivery == [id |-> "", at |-> 0, firstSeen |-> NeverSeen, skipped |-> FALSE, handedOver |-> FALSE]

\* one message of a POST /webhook body: skipped when its id is in
\* processedMessages, otherwise remembered and, for a text message, handed to
\* fieldAgent.processMessage
Deliver(id, messageType) ==
  /\ hook.pc = "on"
  /\ hook.deliveries < MaxDeliveries
  /\ LET dup == id \in hook.processedMessages
         toAgent == ~dup /\ messageType = "text"
     IN hook' = [hook EXCEPT
          !.deliveries = hook.deliveries + 1,
          !.processedMessages = hook.processedMessages \cup {id},
          !.firstSeen[id] = IF hook.firstSeen[id] = NeverSeen THEN hook.clock ELSE hook.firstSeen[id],
          !.handed[id] = hook.handed[id] + (IF toAgent THEN 1 ELSE 0),
          !.last = [id |-> id, at |-> hook.clock, firstSeen |-> hook.firstSeen[id],
                    skipped |-> dup, handedOver |-> toAgent]]

\* a minute of uptime passes; the setInterval callback fires at every multiple
\* of MESSAGE_CACHE_DURATION and clears the whole set
HookTick ==
  /\ hook.pc = "on"
  /\ hook.clock < MaxHookMinutes * MinuteMs
  /\ LET t == hook.clock + MinuteMs IN
     hook' = [hook EXCEPT
       !.clock = t,
       !.processedMessages = IF t % MESSAGE_CACHE_DURATION = 0 THEN {} ELSE hook.processedMessages]

HookNext ==
  \/ \E id \in MessageIds, ty \in MessageTypes : Deliver(id, ty)
  \/ HookTick

InitHook ==
  /\ BaseIdle
  /\ FnIdle /\ CacheIdle /\ TenantsIdle
  /\ hook = [pc |-> "on", clock |-> 0, processedMessages |-> {},
             firstSeen |-> [id \in MessageIds |-> NeverSeen],
             handed |-> [id \in MessageIds |-> 0],
             deliveries |-> 0, last |-> NoDelivery]

NextHook == HookNext /\ UNCHANGED baseVars /\ UNCHANGED <<fn, cache, tenants>>

SpecHook == InitHook /\ [][NextHook]_vars

\* C30: a message id is remembered for 5 minutes after it is first seen: a
\* redelivery of the id within that window is skipped and not handed to the
\* agent
C30_RedeliverySkippedInWindow ==
  hook.pc = "on" =>
    ((hook.last.firstSeen # NeverSeen
        /\ hook.last.at - hook.last.firstSeen < MESSAGE_CACHE_DURATION)
      => (hook.last.skipped /\ ~hook.last.handedOver))

(***************************************************************************)
(* Bookings of one tenant over ranges that touch, nest or are empty        *)
(***************************************************************************)
\* [start, end) in hours of one date as createReservationTime builds them:
\* "1-2", "2-3", "1-3" and the slot "2-2", whose start and end coincide
EdgeRanges == {<<1, 2>>, <<2, 3>>, <<1, 3>>, <<2, 2>>}

EdgeNext ==
  \/ \E p \in Procs, t \in budget.tenants, ph \in Phones, n \in Names, r \in EdgeRanges :
        BeginCreate(p, t, ph, n, r)
  \/ \E p \in Procs : CreatePrecheck(p)
  \/ \E p \in Procs : CreateCustomer(p)
  \/ \E p \in Procs : CreateInsert(p)
  \/ \E p \in Procs, t \in budget.tenants, id \in 1..MaxBookOps : BeginCancel(p, t, id)
  \/ \E p \in Procs : CancelRead(p)
  \/ \E p \in Procs : CancelWrite(p)

InitEdge ==
  /\ providerKind = "openai"
  /\ NODE_ENV = "production"
  /\ AgentIdle
  /\ budget = [variety |-> 0, throws |-> 0, ticks |-> 0, rounds |-> 0, inflight |-> 0, tenants |-> {"1"}, steps |-> {}]
  /\ BookingIdle
  /\ RouterIdle
  /\ SideIdle
  /\ StoreIdle
  /\ SlotIdle

NextEdge == EdgeNext /\ UNCHANGED agentVars /\ UNCHANGED routerVars /\ UNCHANGED pureVars /\ UNCHANGED sideVars

SpecEdge == InitEdge /\ [][NextEdge]_vars

\* candidate.start < existing.end AND candidate.end > existing.start
Intersects(op, r) == op.start < r.end /\ op.end > r.start

\* C31: in both conflict layers a candidate conflicts exactly with the
\* active rows it intersects half-open: the pre-check answers "duplicate"
\* iff an active row of the same phone has candidate.start < existing.end and
\* candidate.end > existing.start, and the INSERT is refused iff an active
\* row of the same tenant has; ranges that only touch never conflict
C31_HalfOpenBothLayers ==
  [][\A p \in Procs :
       /\ (bop[p].pc = "precheck" /\ bop'[p].pc # "precheck") =>
            ((bop'[p].outcome = "duplicate") <=>
               \E r \in Rows(reservations) :
                 /\ r.status = "active"
                 /\ \E c \in customers : c.id = r.customer /\ c.phone = bop[p].phone
                 /\ Intersects(bop[p], r))
       /\ (bop[p].pc = "insert" /\ bop'[p].pc # "insert") =>
            ((bop'[p].outcome = "exclusion") <=>
               \E r \in Rows(reservations) :
                 /\ r.status = "active" /\ r.tenant = bop[p].tenant
                 /\ Intersects(bop[p], r))]_vars

\* every call of every tool-calling assistant message has its tool-result
\* message later in the sequence
CallsHaveResults(messages) ==
  \A i \in 1..Len(messages) :
    (messages[i].role = "assistant" /\ messages[i].has_tool_calls) =>
      \A k \in 1..Len(messages[i].tool_calls) :
        \E j \in (i + 1)..Len(messages) :
          /\ messages[j].role = "tool"
          /\ messages[j].tool_call_id = messages[i].tool_calls[k].id

\* C32: in every stored session history an assistant message with toolCalls
\* is kept together with all of its tool-result messages or not kept at all
C32_StoredCallsHaveResults ==
  \A k \in Keys : CallsHaveResults(conversationHistory[k])

\* p's turn has ended in the catch of processMessage
EndedInError(p) == turn[p].pc = "idle" /\ turn[p].outcome = "error"

\* C33 as stated: after a turn that ended in the error path, the stored
\* session and the last-activity time of its identity are what they were
\* before the turn
C33_FailedTurnLeavesStore ==
  \A p \in Procs :
    EndedInError(p) =>
      /\ conversationHistory[turn[p].key] = turn[p].histBefore
      /\ lastActivityTime[turn[p].key] = turn[p].lastBefore

\* C33: a turn that ended in the error path persisted nothing of itself: the
\* stored session and last-activity time are what they were before the turn,
\* except that a session already past the idle window when the turn loaded it
\* was discarded by that load
C33_FailedTurnPersistsNothing ==
  \A p \in Procs :
    EndedInError(p) =>
      IF turn[p].expiredAtLoad
      THEN /\ conversationHistory[turn[p].key] = <<>>
           /\ lastActivityTime[turn[p].key] = 0
      ELSE /\ conversationHistory[turn[p].key] = turn[p].histBefore
           /\ lastActivityTime[turn[p].key] = turn[p].lastBefore

\* a second turn on a stored, unexpired session failed after a tool round
C33_Witness ==
  \E p \in Procs :
    /\ EndedInError(p)
    /\ ~turn[p].expiredAtLoad
    /\ Len(turn[p].histBefore) > 0
    /\ turn[p].decoded >= 1
    /\ conversationHistory[turn[p].key] = turn[p].histBefore

\* p's create_reservation was turned down by the pre-check or by the
\* exclusion constraint
CreateRejected(p) ==
  bop[p].pc = "done" /\ bop[p].kind = "create" /\ bop[p].outcome \in {"duplicate", "exclusion"}

\* C34: a rejected createReservation wrote nothing: it created or renamed no
\* customer row and added no reservation row
C34_RejectedCreateWritesNothing ==
  \A p \in Procs :
    CreateRejected(p) =>
      /\ ~bop[p].wroteCustomer
      /\ bop[p].stored = 0

\* C35: a cancelled reservation is terminal: in no step does a cancel or an
\* update succeed on a row that is already cancelled, and the row's start,
\* end and status stay as they are
C35_CancelledIsTerminal ==
  [][\A i \in 1..Len(reservations) :
       reservations[i].status = "cancelled" =>
         /\ reservations'[i] = reservations[i]
         /\ \A p \in Procs :
              (bop[p].pc # "done" /\ bop'[p].pc = "done" /\ bop'[p].target = i)
                => bop'[p].outcome \notin {"updated", "cancelled-now"}]_vars

DistinctIds(calls) ==
  \A a, b \in 1..Len(calls) : a # b => calls[a].id # calls[b].id

\* C36: within one decoded assistant turn the ToolCall ids are pairwise
\* distinct, for either provider, also when the turn calls one function twice
C36_CallIdsDistinct ==
  \A p \in Procs :
    \A i \in 1..Len(turn[p].messages) :
      (turn[p].messages[i].role = "assistant" /\ turn[p].messages[i].has_tool_calls)
        => DistinctIds(turn[p].messages[i].tool_calls)

\* C37: for a slot "a-b" with 0 <= a < b <= 23 and no morning qualifier the
\* resolved hours satisfy startHour < endHour
C37_SlotStartsBeforeEnd ==
  (/\ slot.pc = "done"
   /\ ~MorningToken(slot.e.word)
   /\ 0 <= slot.e.a /\ slot.e.a < slot.e.b /\ slot.e.b <= 23)
    => slot.result.startHour < slot.result.endHour

\* the tool call of p's turn that executeFunction runs in this step
ExecutedCall(p) ==
  LET t == turn[p] IN t.messages[Len(t.messages) - (t.callIdx - 1)].tool_calls[t.callIdx]

\* executeFunction returned and the tool-result was pushed in this step
Executes(p) ==
  /\ turn[p].pc = "executing"
  /\ Len(turn'[p].messages) = Len(turn[p].messages) + 1

\* C38: every implemented function executed during a turn belongs to the
\* subset that routing selected for the turn
C38_OnlyRoutedToolsRun ==
  [][\A p \in Procs :
       (Executes(p) /\ Registered(ExecutedCall(p).name)) =>
         \E i \in 1..Len(turn[p].relevantTools) :
           turn[p].relevantTools[i] = ExecutedCall(p).name]_vars

(***************************************************************************)
(* get_current_time (Istanbul wall clock) beside getWeekStartDate          *)
(* (process-local wall clock)                                              *)
(***************************************************************************)
HourMs == 60 * 60 * 1000

IstanbulOffset == 3   \* Europe/Istanbul is UTC+3 all year

\* hours east of UTC of the process-local zone: the container image sets no
\* TZ (UTC); a host may run in Istanbul time
ProcessOffsets == {0, IstanbulOffset}

\* the wall clock of a zone at the instant (UTC day, UTC hour)
WallClock(utcDay, utcHour, offset) ==
  LET hours == utcDay * 24 + utcHour + offset
  IN DateOf(hours \div 24, (hours % 24) * HourMs)

\* dayNames of get_current_time, indexed by getDay, in ASCII
dayNames == <<"Pazar", "Pazartesi", "Sali", "Carsamba", "Persembe", "Cuma", "Cumartesi">>

\* args.day_of_week.toLowerCase() on the names above
toLowerCase(name) ==
  CASE name = "Pazar" -> "pazar"
    [] name = "Pazartesi" -> "pazartesi"
    [] name = "Sali" -> "sali"
    [] name = "Carsamba" -> "carsamba"
    [] name = "Persembe" -> "persembe"
    [] name = "Cuma" -> "cuma"
    [] name = "Cumartesi" -> "cumartesi"
    [] OTHER -> name

\* get_current_time: the weekday name of the Istanbul wall clock
GetCurrentTime ==
  /\ fn.pc = "clock"
  /\ LET istanbulTime == WallClock(fn.utcDay, fn.utcHour, IstanbulOffset)
     IN fn' = [fn EXCEPT !.pc = "reported",
                         !.istanbulDay = istanbulTime.day,
                         !.dayName = dayNames[getDay(istanbulTime) + 1]]

\* create_reservation for the reported weekday with week_offset 0, at the
\* same instant: the date part, computed on the process-local wall clock
BookReportedDay ==
  /\ fn.pc = "reported"
  /\ LET now_ == WallClock(fn.utcDay, fn.utcHour, fn.offset)
     IN fn' = [fn EXCEPT !.pc = "booked",
                         !.out = ResolveDay(now_, 0, toLowerCase(fn.dayName))]

ZoneNext == GetCurrentTime \/ BookReportedDay

InitZone ==
  /\ BaseIdle
  /\ fn \in {[pc |-> "clock", utcDay |-> d, utcHour |-> h, offset |-> o,
              istanbulDay |-> 0, dayName |-> "",
              out |-> [valid |-> FALSE, weekStartDate |-> DateOf(0, 0),
                       reservationDate |-> DateOf(0, 0)]] :
               d \in FirstDay..LastDay, h \in 0..23, o \in ProcessOffsets}
  /\ CacheIdle /\ TenantsIdle /\ HookIdle

NextZone == ZoneNext /\ UNCHANGED baseVars /\ UNCHANGED <<cache, tenants, hook>>

SpecZone == InitZone /\ [][NextZone]_vars

\* C39: a booking made for the weekday get_current_time reports, with
\* week_offset 0, lands on the current Istanbul date
C39_ReportedDayIsBookedDay ==
  fn.pc = "booked" =>
    /\ fn.out.valid
    /\ fn.out.reservationDate.day = fn.istanbulDay

====
